---- MODULE Spec2Model ----
(***************************************************************************)
(* Upload-to-playback pipeline of the video server: the upload handler,    *)
(* its background orchestration run, the playback endpoints and the        *)
(* periodic sweep, for one uploaded video.                                 *)
(*                                                                         *)
(* Sizes are in MB, times in units of 30 minutes (the sweep interval).     *)
(* Percentages are computed with exact rational arithmetic and rounded     *)
(* half up, as Math.round does on the non-negative values used here.       *)
(***************************************************************************)
EXTENDS Integers, Sequences, FiniteSets, TLC

(* ---- bounds of the model ---- *)
MaxTime == 3         \* the clock stops after this many half hours
MaxDbFaults == 1     \* metadata-store calls that may reject in one run
SegsShort == 1       \* segments per variant of a short source
SegsLong == 60       \* segments per variant of a long source

(* ---- program constants ---- *)
maxFileSize == 50          \* MB, per-object limit
maxRetries == 3            \* attempts of one primary upload
retryDelay == 5            \* base delay between attempts, in seconds
batchSize == 3             \* segment files uploaded at once
maxSegmentRetries == 3     \* attempts of one segment file
LargeChunkedMB == 100      \* MB, the stream endpoint prefers HLS above it
HlsFileCeiling == 100      \* bulk segment upload gives up above it
chunkSize == 45            \* MB, size of the parts of a chunked upload
UploadMaxAge == 2          \* sweep: uploads older than 1 hour
TempMaxAge == 1            \* sweep: temp files older than 30 minutes

Sizes == {40, 80, 120}             \* MB: single, chunked, chunked and large
Heights == {240, 480}              \* source video heights
AudioCounts == {0, 1, 2}           \* audio tracks of the source
TrackIndexes == {0, 1, 2}          \* track indexes of audio requests
UpSizes == {1, 45, 50, 51, 90, 91, 136}   \* MB: files given to the adapter
Destinations == {"primary", "backup"}     \* channels an upload goes to

MaxBackups == 2                        \* backup channels configured
MaxSourceHeight == 1100                \* tallest source given to the ladder
MaxDirs == 2                                \* directories under hls/
MaxTracks == 2                              \* extracted audio tracks uploaded
MaxPathLen == 3                             \* segments of a request path
MaxParts == 3                               \* parts of a chunked upload
MaxProgressEvents == 2                      \* ffmpeg progress events of one encode
MaxRedirects == 4                           \* redirects a client follows
MaxHeaderLen == 5                      \* longest Range header, in tokens
\* the characters a Range header is made of: the unit prefix as one token,
\* some digits, the dash, and a letter standing for any other character
Tokens == {"bytes=", "0", "1", "2", "-", "x"}
ContentLengths == {1, 3, 12}           \* contentLength the source reports

VARIABLES
    cfg,        \* server configuration: [bot, force]
    pc,         \* position of the upload handler / background task
    file,       \* the uploaded source: [size, height, nAudio]
    attempt,    \* attempt number of the primary upload (uploadWithRetry)
    tg,         \* telegramData of the handler: [uploaded, uploadMethod]
    rec,        \* the video's record in the metadata store
    disk,       \* local files of the video
    segCloud,   \* outcome of the bulk segment upload: [state, failed]
    pr,         \* processingResults and loop counters of the background task
    now,        \* clock
    uploadResp, \* response of the upload request
    caught,     \* failures caught by the background phases so far
    dbFaults,   \* metadata-store calls that rejected so far
    wq,         \* awaited status updates not yet applied by the store
    up,         \* one call of uploadToChannel and the download of its record
    rq,          \* one cloud-streamed request of the stream endpoint
    rp,          \* one call of uploadVideo with its backup replication
    ql,          \* one call of getQualityLevels
    hc,          \* one run of the cleanup_hls.js script
    pw,          \* status writes of one quality encode
    cu,          \* two chunked uploads running at once
    fo,          \* the audio-track upload fan-out
    bu,          \* the bulk upload of the segment files
    hs          \* the manifest/segment endpoint and the directories under hls/

\* the state of the object-store adapter and of the range handling
ioVars == <<up, rq, rp, ql, hc, pw, cu, fo, bu, hs>>

\* for each of them, the others
exceptUp == <<rq, rp, ql, hc, pw, cu, fo, bu, hs>>
exceptRq == <<up, rp, ql, hc, pw, cu, fo, bu, hs>>
exceptRp == <<up, rq, ql, hc, pw, cu, fo, bu, hs>>
exceptQl == <<up, rq, rp, hc, pw, cu, fo, bu, hs>>
exceptHc == <<up, rq, rp, ql, pw, cu, fo, bu, hs>>
exceptPw == <<up, rq, rp, ql, hc, cu, fo, bu, hs>>
exceptCu == <<up, rq, rp, ql, hc, pw, fo, bu, hs>>
exceptFo == <<up, rq, rp, ql, hc, pw, cu, bu, hs>>
exceptBu == <<up, rq, rp, ql, hc, pw, cu, fo, hs>>
exceptHs == <<up, rq, rp, ql, hc, pw, cu, fo, bu>>

vars == <<cfg, pc, file, attempt, tg, rec, disk, segCloud, pr, now, uploadResp,
          caught, dbFaults, wq, up, rq, rp, ql, hc, pw, cu, fo, bu, hs>>

(* ---- arithmetic ---- *)
\* Math.round(n / d) for n >= 0, d > 0
Round(n, d) == (2 * n + d) \div (2 * d)

\* Math.min
Min(a, b) == IF a <= b THEN a ELSE b

(* ---- quality ladder ---- *)
levels == <<1080, 720, 480, 360>>

\* the ladder filter keeping only the entries strictly below the source
getQualityLevelsBelow(height) ==
    LET originalHeight == IF height = 0 THEN 720 ELSE height
    IN  SelectSeq(levels, LAMBDA h : h < originalHeight)

\* heights of the ladder entries kept for a source height, in ladder order
getQualityLevels(height) ==
    LET originalHeight == IF height = 0 THEN 720 ELSE height
    IN  SelectSeq(levels, LAMBDA h : h <= originalHeight)

(* ---- the processing status written by the handler ---- *)
Status(progress, stage, quality, thumb, complete, errors) ==
    [hlsProgress |-> progress, hlsStage |-> stage, currentQuality |-> quality,
     thumbnailGenerating |-> thumb, complete |-> complete, errors |-> errors]

\* the status object built by progressCallback(progress, stage, currentQuality)
progressCallback(progress, stage, quality) ==
    Status(progress, stage, quality, FALSE, progress >= 100, <<>>)

NoTg == [uploaded |-> FALSE, uploadMethod |-> "none"]

NoRec ==
    [exists |-> FALSE, size |-> 0, telegramData |-> NoTg,
     streamingMethod |-> "none", hlsPlaylist |-> FALSE, videoOnlyHLS |-> FALSE,
     extractedAudioFiles |-> <<>>, audioHLSStreams |-> {},
     hasMultiAudio |-> FALSE, hlsCloudData |-> [set |-> FALSE, uploaded |-> FALSE],
     cloudThumbnail |-> FALSE,
     processingStatus |-> Status(0, "none", "none", FALSE, FALSE, <<>>)]

\* updateVideoMetadata: the given fields replace the stored ones
updateVideoMetadata(r, updates) ==
    [f \in DOMAIN r |-> IF f \in DOMAIN updates THEN updates[f] ELSE r[f]]

NoFile == [size |-> 0, height |-> 0, nAudio |-> 0]
NoDisk == [upload |-> FALSE, mtime |-> 0, hls |-> {}, audio |-> {}, temp |-> {}]
NoPr ==
    [hlsPath |-> FALSE, videoOnlyHLS |-> FALSE, extracted |-> <<>>,
     audioHLS |-> {}, hasMultiAudio |-> FALSE, cloud |-> <<>>,
     i |-> 0, variants |-> <<>>,
     masters |-> [std |-> <<>>, vo |-> <<>>]]
NoSegCloud == [state |-> "none", failed |-> {}]
NoRecord == [uploaded |-> FALSE, uploadMethod |-> "none", chunks |-> <<>>,
             data |-> <<>>]
NoUp ==
    [pc |-> "idle", dest |-> "none", src |-> <<>>, attempt |-> 0, temp |-> <<>>,
     i |-> 0, uploadedChunks |-> <<>>, sends |-> 0, record |-> NoRecord,
     out |-> <<>>, slept |-> <<>>]
Num(v) == [nan |-> FALSE, v |-> v]
NaN == [nan |-> TRUE, v |-> 0]
NoHeader == [present |-> FALSE, text |-> <<>>]
NoRp ==
    [pc |-> "idle", nBackups |-> 0, attempt |-> 0, primary |-> "none",
     returned |-> [set |-> FALSE, uploaded |-> FALSE], fileThere |-> FALSE,
     bpc |-> "none", k |-> 0, backups |-> <<>>]
NoQl == [pc |-> "idle", height |-> 0, qualities |-> <<>>]
NoHc ==
    [pc |-> "idle", force |-> FALSE, dryRun |-> FALSE, database |-> "none",
     dirs |-> <<>>, toCleanup |-> {}, present |-> {}]
NoRq ==
    [pc |-> "idle", range |-> NoHeader, contentLength |-> 0,
     acceptsRanges |-> FALSE, start |-> NaN, end |-> NaN, status |-> 0,
     ContentRange |-> <<>>, ContentLength |-> <<>>]

\* the status writes of one quality encode: nothing issued yet
NoPw == [pc |-> "before", k |-> 1, ok |-> TRUE, started |-> FALSE, events |-> 0,
         seq |-> 0, awaited |-> 0, inflight |-> {},
         stored |-> [seq |-> 0, stage |-> "none"]]

\* two chunked uploads and the directory temp/ they share: nothing started
Uploads == {1, 2}
NoPart == <<0, 0>>
NoCu == [temp |-> [i \in 0..(MaxParts - 1) |-> NoPart],
         u |-> [p \in Uploads |-> [pc |-> "idle", n |-> 0, i |-> 0, sent |-> <<>>]]]

\* the audio-track upload fan-out: nothing started
NoFo == [pc |-> "idle", n |-> 0, t |-> 0, dur |-> <<>>, willOk |-> <<>>,
         io |-> <<>>, entry |-> <<>>, timers |-> {}, groupTimer |-> FALSE,
         cloud |-> <<>>, files |-> {}]

\* the bulk upload of the segment files: not called yet
NoBu == [pc |-> "idle", n |-> 0, i |-> 0, slots |-> <<>>, covered |-> 0,
         pauses |-> 0, sent |-> FALSE, anyUploaded |-> FALSE, result |-> "none"]

\* the manifest/segment endpoint: no video stored, no request answered
NoHs == [videos |-> {}, videoId |-> <<>>, requestPath |-> <<>>,
         answer |-> "none", served |-> <<>>]

Init ==
    /\ cfg \in [bot : BOOLEAN, force : BOOLEAN]
    /\ pc = "idle"
    /\ file = NoFile
    /\ attempt = 0
    /\ tg = NoTg
    /\ rec = NoRec
    /\ disk = NoDisk
    /\ segCloud = NoSegCloud
    /\ pr = NoPr
    /\ now = 0
    /\ uploadResp = "none"
    /\ caught = {}
    /\ dbFaults = 0
    /\ wq = <<>>
    /\ up = NoUp
    /\ rq = NoRq
    /\ rp = NoRp
    /\ ql = NoQl
    /\ hc = NoHc
    /\ pw = NoPw
    /\ cu = NoCu
    /\ fo = NoFo
    /\ bu = NoBu
    /\ hs = NoHs

(* ---- metadata store ---- *)
\* a call to the store either succeeds or, a bounded number of times, rejects
DbOutcomes == IF dbFaults < MaxDbFaults THEN {TRUE, FALSE} ELSE {TRUE}
DbCount(ok) == IF ok THEN dbFaults ELSE dbFaults + 1

\* an awaited status update is applied before the task goes on (rejections
\* of the store are modelled at the calls where they change the control flow)
DbWrite ==
    /\ wq # <<>>
    /\ rec' = updateVideoMetadata(rec, [processingStatus |-> Head(wq)])
    /\ wq' = Tail(wq)
    /\ UNCHANGED <<ioVars, cfg, pc, file, attempt, tg, disk, segCloud, pr, now, uploadResp, caught, dbFaults>>

(* ---- POST /api/upload: the request handler ---- *)
\* the handler answering before the cloud upload is attempted
UploadRequestRespondsFirst ==
    /\ pc = "idle"
    /\ \E f \in [size : Sizes, height : Heights, nAudio : AudioCounts],
          probeOk \in BOOLEAN :
        /\ file' = f
        /\ disk' = [disk EXCEPT !.upload = TRUE, !.mtime = now]
        /\ IF probeOk
           THEN pc' = "upload_primary" /\ attempt' = 1 /\ uploadResp' = "ok"
           ELSE pc' = "rejected" /\ attempt' = attempt /\ uploadResp' = "500"
    /\ UNCHANGED <<ioVars, cfg, tg, rec, segCloud, pr, now, caught, dbFaults, wq>>

\* multer stores the file under uploads/, then ffprobe reads its metadata
UploadRequest ==
    /\ pc = "idle"
    /\ \E f \in [size : Sizes, height : Heights, nAudio : AudioCounts],
          probeOk \in BOOLEAN :
        /\ file' = f
        /\ disk' = [disk EXCEPT !.upload = TRUE, !.mtime = now]
        /\ IF probeOk
           THEN pc' = "upload_primary" /\ attempt' = 1 /\ uploadResp' = uploadResp
           ELSE pc' = "rejected" /\ attempt' = attempt /\ uploadResp' = "500"
    /\ UNCHANGED <<ioVars, cfg, tg, rec, segCloud, pr, now, caught, dbFaults, wq>>

\* the record uploadToChannel returns for a file of the given size
uploadToChannel(size) ==
    [uploaded |-> TRUE,
     uploadMethod |-> IF size > maxFileSize THEN "chunked" ELSE "single"]

\* uploadVideo letting the failure of the last attempt, a missing file or a
\* missing configuration reach the handler's catch-all, which answers 500
uploadVideoThrows ==
    /\ pc = "upload_primary"
    /\ IF ~cfg.bot \/ ~disk.upload
       THEN /\ tg' = NoTg
            /\ pc' = "rejected"
            /\ attempt' = attempt
            /\ uploadResp' = "500"
       ELSE \E ok \in BOOLEAN :
            IF ok
            THEN /\ tg' = uploadToChannel(file.size)
                 /\ pc' = "save"
                 /\ attempt' = attempt
                 /\ uploadResp' = uploadResp
            ELSE IF attempt = maxRetries
                 THEN /\ tg' = NoTg
                      /\ pc' = "rejected"
                      /\ attempt' = attempt
                      /\ uploadResp' = "500"
                 ELSE /\ tg' = tg
                      /\ pc' = pc
                      /\ attempt' = attempt + 1
                      /\ uploadResp' = uploadResp
    /\ UNCHANGED <<ioVars, cfg, file, rec, disk, segCloud, pr, now,
                   caught, dbFaults, wq>>

\* one attempt of uploadWithRetry inside uploadVideo
uploadVideo ==
    /\ pc = "upload_primary"
    /\ IF ~cfg.bot \/ ~disk.upload
       THEN /\ tg' = NoTg
            /\ pc' = "save"
            /\ attempt' = attempt
       ELSE \E ok \in BOOLEAN :
            IF ok
            THEN /\ tg' = uploadToChannel(file.size)
                 /\ pc' = "save"
                 /\ attempt' = attempt
            ELSE IF attempt = maxRetries
                 THEN /\ tg' = NoTg
                      /\ pc' = "save"
                      /\ attempt' = attempt
                 ELSE /\ tg' = tg
                      /\ pc' = pc
                      /\ attempt' = attempt + 1
    /\ UNCHANGED <<ioVars, cfg, file, rec, disk, segCloud, pr, now, uploadResp,
                   caught, dbFaults, wq>>

\* the handler scheduling the background task before the record is stored
SaveAndRespondStartsFirst ==
    /\ pc = "save"
    /\ \E ok \in DbOutcomes :
        /\ dbFaults' = DbCount(ok)
        /\ IF ok
           THEN /\ rec' = [NoRec EXCEPT !.exists = TRUE, !.size = file.size,
                                        !.telegramData = tg,
                                        !.streamingMethod = "cloud"]
                /\ uploadResp' = "ok"
                /\ pc' = "bg_start"
           ELSE /\ rec' = rec
                /\ uploadResp' = "500"
                /\ pc' = "bg_start"
    /\ UNCHANGED <<ioVars, cfg, file, attempt, tg, disk, segCloud, pr, now, caught, wq>>

\* saveVideo, then setImmediate(background task) and res.json in the same turn
SaveAndRespond ==
    /\ pc = "save"
    /\ \E ok \in DbOutcomes :
        /\ dbFaults' = DbCount(ok)
        /\ IF ok
           THEN /\ rec' = [NoRec EXCEPT !.exists = TRUE, !.size = file.size,
                                        !.telegramData = tg,
                                        !.streamingMethod = "cloud"]
                /\ uploadResp' = "ok"
                /\ pc' = "bg_start"
           ELSE /\ rec' = rec
                /\ uploadResp' = "500"
                /\ pc' = "rejected"
    /\ UNCHANGED <<ioVars, cfg, file, attempt, tg, disk, segCloud, pr, now, caught, wq>>

(* ---- the background task started by setImmediate ---- *)
ThumbStatus(generating) == Status(0, "none", "none", generating, FALSE, <<>>)

\* status update: thumbnail generation started
BgThumbStart ==
    /\ pc = "bg_start" /\ wq = <<>>
    /\ \E ok \in DbOutcomes :
        /\ dbFaults' = DbCount(ok)
        /\ IF ok
           THEN /\ rec' = updateVideoMetadata(rec,
                              [processingStatus |-> ThumbStatus(TRUE)])
                /\ pc' = "thumb_extract"
           ELSE /\ rec' = rec
                /\ pc' = "outer_catch"
    /\ UNCHANGED <<ioVars, cfg, file, attempt, tg, disk, segCloud, pr, now, uploadResp, caught, wq>>

\* extractThumbnail writes temp/<id>_thumb.jpg, or fails (not critical)
BgThumbExtract ==
    /\ pc = "thumb_extract" /\ wq = <<>>
    /\ \E ok \in BOOLEAN :
        disk' = IF ok /\ disk.upload
                THEN [disk EXCEPT !.temp = @ \cup {[name |-> "thumb", mtime |-> now]}]
                ELSE disk
    /\ pc' = "thumb_store"
    /\ UNCHANGED <<ioVars, cfg, file, attempt, tg, rec, segCloud, pr, now, uploadResp, caught, dbFaults, wq>>

ThumbFiles == {t \in disk.temp : t.name = "thumb"}

\* the thumbnail, if its file exists, is read and removed; the record is updated
BgThumbStore ==
    /\ pc = "thumb_store" /\ wq = <<>>
    /\ disk' = [disk EXCEPT !.temp = @ \ ThumbFiles]
    /\ \E ok \in DbOutcomes :
        /\ dbFaults' = DbCount(ok)
        /\ IF ok
           THEN /\ rec' = updateVideoMetadata(rec,
                              [cloudThumbnail |-> (ThumbFiles # {}),
                               processingStatus |-> ThumbStatus(FALSE)])
                /\ pc' = "proc_begin"
           ELSE /\ rec' = rec
                /\ pc' = "outer_catch"
    /\ UNCHANGED <<ioVars, cfg, file, attempt, tg, segCloud, pr, now, uploadResp,
                   caught, wq>>

\* the multi-audio test taking any source with audio
hasMultipleAudioAny == file.nAudio >= 1

\* metadata.audio && metadata.audio.length > 1
hasMultipleAudio == file.nAudio > 1
qualities == getQualityLevels(file.height)
totalQualities == Len(qualities)

\* the remapping of a phase's percentage into the overall percentage
ExtractProgress(p) == Round(500 + 15 * p, 100)        \* 5 + p * 0.15
VideoOnlyProgress(p) == Round(2000 + 40 * p, 100)     \* 20 + p * 0.4
StdProgress(p) ==                                     \* 60 + p * 25 / 100
    IF pr.hasMultiAudio THEN Round(6000 + 25 * p, 100) ELSE p
AudioHlsProgress(p) == Round(8500 + 10 * p, 100)      \* 85 + p * 0.1

\* the multi-audio processing entered whatever the number of audio tracks
MAStartAlways ==
    /\ pc = "proc_begin" /\ wq = <<>>
    /\ pr' = [pr EXCEPT !.hasMultiAudio = TRUE, !.i = 0]
    /\ wq' = <<progressCallback(5, "Extracting audio tracks", "multi-audio"),
               progressCallback(ExtractProgress(0), "Audio extraction: starting",
                                "multi-audio")>>
    /\ pc' = "extract"
    /\ UNCHANGED <<ioVars, cfg, file, attempt, tg, rec, disk, segCloud, now, uploadResp, caught, dbFaults>>

\* processMultiAudioVideo, step 1 begins: extractAudioTracks
MAStart ==
    /\ pc = "proc_begin" /\ wq = <<>> /\ hasMultipleAudio
    /\ pr' = [pr EXCEPT !.hasMultiAudio = TRUE, !.i = 0]
    /\ wq' = <<progressCallback(5, "Extracting audio tracks", "multi-audio"),
               progressCallback(ExtractProgress(0), "Audio extraction: starting",
                                "multi-audio")>>
    /\ pc' = "extract"
    /\ UNCHANGED <<ioVars, cfg, file, attempt, tg, rec, disk, segCloud, now, uploadResp, caught, dbFaults>>

\* every track gets the index of the first
trackIndexFirst(i) == 0

\* 'track.index || i': the tracks of getVideoMetadata carry no index field,
\* so the position in the list is the track index
trackIndex(i) == i

\* one iteration of the loop of extractAudioTracks: track pr.i; a failed
\* demux or an empty output file is caught and the loop goes on
ExtractTrack ==
    /\ pc = "extract" /\ wq = <<>> /\ pr.i < file.nAudio
    /\ wq' = <<progressCallback(ExtractProgress(Round(100 * pr.i, file.nAudio)),
                                "Audio extraction: extracting track", "multi-audio")>>
    /\ \E ok \in BOOLEAN :
        /\ pr' = [pr EXCEPT !.i = @ + 1,
                            !.extracted = IF ok THEN Append(@, trackIndex(pr.i))
                                          ELSE @]
        /\ disk' = IF ok THEN [disk EXCEPT !.audio = @ \cup {trackIndex(pr.i)}]
                   ELSE disk
        /\ caught' = IF ok THEN caught ELSE caught \cup {"audio extraction"}
    /\ UNCHANGED <<ioVars, cfg, pc, file, attempt, tg, rec, segCloud, now, uploadResp, dbFaults>>

\* extractAudioTracks returns; step 2 begins: createVideoOnlyHLS
ExtractDone ==
    /\ pc = "extract" /\ wq = <<>> /\ pr.i = file.nAudio
    /\ wq' = <<progressCallback(ExtractProgress(100), "Audio extraction: complete",
                                "multi-audio"),
               progressCallback(20, "Creating video-only HLS stream", "video-only"),
               progressCallback(VideoOnlyProgress(0),
                                "Starting video-only HLS generation", "none")>>
    /\ pr' = [pr EXCEPT !.i = 1, !.variants = <<>>]
    /\ pc' = "vo_quality"
    /\ UNCHANGED <<ioVars, cfg, file, attempt, tg, rec, disk, segCloud, now, uploadResp, caught, dbFaults>>

\* the name of a ladder entry
QName(h) == IF h = 1080 THEN "1080p" ELSE IF h = 720 THEN "720p"
            ELSE IF h = 480 THEN "480p" ELSE "360p"

\* a master playlist naming every entry of the ladder, encoded or not
createMasterOfLadder(variants) ==
    [k \in 1..Len(qualities) |-> QName(qualities[k])]

\* createMasterHLSPlaylist: one entry '<name>/playlist.m3u8' per variant
\* it is given, in the order given
createMasterHLSPlaylist(variants) ==
    [k \in 1..Len(variants) |-> QName(variants[k])]

\* createVideoOnlyMasterPlaylist: likewise
createVideoOnlyMasterPlaylist(variants) ==
    [k \in 1..Len(variants) |-> QName(variants[k])]

\* one iteration of the loop of createVideoOnlyHLS: quality pr.i
VOQuality ==
    /\ pc = "vo_quality" /\ wq = <<>> /\ pr.i <= totalQualities
    /\ LET q == qualities[pr.i] IN
       /\ wq' = <<progressCallback(
                      VideoOnlyProgress(Round(90 * (pr.i - 1), totalQualities)),
                      "Creating video-only quality", QName(q))>>
       /\ \E ok \in BOOLEAN :
           /\ pr' = [pr EXCEPT !.i = @ + 1,
                               !.variants = IF ok THEN Append(@, q) ELSE @]
           /\ disk' = IF ok THEN [disk EXCEPT !.hls = @ \cup {<<"vo", q>>}]
                      ELSE disk
           /\ caught' = IF ok THEN caught ELSE caught \cup {"video-only quality"}
    /\ UNCHANGED <<ioVars, cfg, pc, file, attempt, tg, rec, segCloud, now, uploadResp, dbFaults>>

\* createVideoOnlyHLS ends: master playlist or a throw; step 3 begins
VOFinish ==
    /\ pc = "vo_quality" /\ wq = <<>> /\ pr.i > totalQualities
    /\ IF pr.variants # <<>>
       THEN /\ wq' = <<progressCallback(VideoOnlyProgress(95),
                           "Creating video-only master playlist", "none"),
                       progressCallback(VideoOnlyProgress(100),
                           "Video-only HLS generation complete", "none"),
                       progressCallback(60, "Creating standard HLS stream", "none"),
                       progressCallback(StdProgress(0), "Starting HLS generation",
                                        "none")>>
            /\ disk' = [disk EXCEPT !.hls = @ \cup {<<"vomaster", 0>>}]
            /\ pr' = [pr EXCEPT !.videoOnlyHLS = TRUE, !.i = 1, !.variants = <<>>,
                                !.masters.vo =
                                    createVideoOnlyMasterPlaylist(pr.variants)]
            /\ pc' = "std_quality"
            /\ caught' = caught
       ELSE /\ wq' = <<progressCallback(VideoOnlyProgress(95),
                           "Creating video-only master playlist", "none")>>
            /\ disk' = disk
            /\ pr' = pr
            /\ pc' = "proc_catch"
            /\ caught' = caught \cup {"processing"}
    /\ UNCHANGED <<ioVars, cfg, file, attempt, tg, rec, segCloud, now, uploadResp,
                   dbFaults>>

\* convertToHLSWithProgress begins for a source with at most one audio track
StdStart ==
    /\ pc = "proc_begin" /\ wq = <<>> /\ ~hasMultipleAudio
    /\ wq' = <<progressCallback(StdProgress(0), "Starting HLS generation", "none")>>
    /\ pr' = [pr EXCEPT !.i = 1, !.variants = <<>>]
    /\ pc' = "std_quality"
    /\ UNCHANGED <<ioVars, cfg, file, attempt, tg, rec, disk, segCloud, now, uploadResp, caught, dbFaults>>

\* generateHLSVariantWithProgress: the audio tracks of the source mapped
\* into a variant ('-map 0:a:i?'), at most four; none means noAudio()
audioMappings(nAudio) == [i \in 1..Min(nAudio, 4) |-> i - 1]

\* one iteration of the loop of convertToHLSWithProgress: quality pr.i
StdQuality ==
    /\ pc = "std_quality" /\ wq = <<>> /\ pr.i <= totalQualities
    /\ LET q == qualities[pr.i]
           started == progressCallback(
                          StdProgress(Round(90 * (pr.i - 1), totalQualities)),
                          "Starting quality", QName(q))
           after == StdProgress(Round(90 * pr.i, totalQualities))
       IN \E ok \in BOOLEAN :
           /\ wq' = <<started,
                      progressCallback(after,
                          IF ok THEN "Completed quality" ELSE "Failed to generate",
                          QName(q))>>
           /\ pr' = [pr EXCEPT !.i = @ + 1,
                               !.variants = IF ok THEN Append(@, q) ELSE @]
           /\ disk' = IF ok THEN [disk EXCEPT !.hls = @ \cup {<<"std", q>>}]
                      ELSE disk
           /\ caught' = IF ok THEN caught ELSE caught \cup {"quality encode"}
    /\ UNCHANGED <<ioVars, cfg, pc, file, attempt, tg, rec, segCloud, now, uploadResp, dbFaults>>

\* convertToHLSWithProgress ends: master playlist or a throw; step 4 begins, or
\* processMultiAudioVideo returns
StdFinish ==
    /\ pc = "std_quality" /\ wq = <<>> /\ pr.i > totalQualities
    /\ LET master == progressCallback(StdProgress(95), "Creating master playlist",
                                      "none")
           complete == progressCallback(StdProgress(100), "HLS generation complete",
                                        "none")
       IN
       IF pr.variants = <<>>
       THEN /\ wq' = <<master>>
            /\ disk' = disk
            /\ pr' = pr
            /\ pc' = "proc_catch"
            /\ caught' = caught \cup {"processing"}
       ELSE /\ disk' = [disk EXCEPT !.hls = @ \cup {<<"master", 0>>}]
            /\ caught' = caught
            /\ IF pr.hasMultiAudio /\ pr.extracted # <<>>
               THEN /\ wq' = <<master, complete,
                               progressCallback(85, "Creating audio-only HLS streams",
                                                "audio-hls"),
                               progressCallback(AudioHlsProgress(0),
                                   "Audio HLS: creating streams", "audio-hls")>>
                    /\ pr' = [pr EXCEPT !.hlsPath = TRUE, !.i = 1,
                                        !.masters.std =
                                            createMasterHLSPlaylist(pr.variants)]
                    /\ pc' = "audio_hls"
               ELSE /\ wq' = IF pr.hasMultiAudio
                             THEN <<master, complete,
                                    progressCallback(100,
                                        "Multi-audio processing complete", "none")>>
                             ELSE <<master, complete>>
                    /\ pr' = [pr EXCEPT !.hlsPath = TRUE,
                                        !.masters.std =
                                            createMasterHLSPlaylist(pr.variants)]
                    /\ pc' = "audio_uploads"
    /\ UNCHANGED <<ioVars, cfg, file, attempt, tg, rec, segCloud, now, uploadResp,
                   dbFaults>>

\* one iteration of the loop of createAudioHLSStreams: extracted file pr.i
AudioHlsTrack ==
    /\ pc = "audio_hls" /\ wq = <<>> /\ pr.i <= Len(pr.extracted)
    /\ LET t == pr.extracted[pr.i] IN
       /\ wq' = <<progressCallback(
                      AudioHlsProgress(Round(100 * (pr.i - 1), Len(pr.extracted))),
                      "Audio HLS: creating HLS for track", "audio-hls")>>
       /\ \E ok \in BOOLEAN :
           /\ pr' = [pr EXCEPT !.i = @ + 1,
                               !.audioHLS = IF ok THEN @ \cup {t} ELSE @]
           /\ disk' = IF ok THEN [disk EXCEPT !.hls = @ \cup {<<"audio", t>>}]
                      ELSE disk
           /\ caught' = IF ok THEN caught ELSE caught \cup {"audio HLS"}
    /\ UNCHANGED <<ioVars, cfg, pc, file, attempt, tg, rec, segCloud, now, uploadResp, dbFaults>>

\* createAudioHLSStreams returns; processMultiAudioVideo reports 100 and returns
AudioHlsDone ==
    /\ pc = "audio_hls" /\ wq = <<>> /\ pr.i > Len(pr.extracted)
    /\ wq' = <<progressCallback(AudioHlsProgress(100), "Audio HLS: streams created",
                                "audio-hls"),
               progressCallback(100, "Multi-audio processing complete", "none")>>
    /\ pc' = "audio_uploads"
    /\ UNCHANGED <<ioVars, cfg, file, attempt, tg, rec, disk, segCloud, pr, now, uploadResp, caught, dbFaults>>

\* the entry of extractedAudioFiles recorded for a track
AudioCloudEntry(t, uploaded) ==
    [trackIndex |-> t, uploaded |-> uploaded, hlsUrl |-> (t \in pr.audioHLS)]

\* the audio-track uploads: skipped when the main upload failed, otherwise each
\* upload succeeds, or fails or times out (recorded alike as not uploaded)
AudioUploads ==
    /\ pc = "audio_uploads" /\ wq = <<>>
    /\ LET n == Len(pr.extracted) IN
       IF n = 0 \/ ~tg.uploaded
       THEN /\ pr' = [pr EXCEPT !.cloud =
                         [k \in 1..n |-> AudioCloudEntry(pr.extracted[k], FALSE)]]
            /\ caught' = caught
       ELSE \E out \in [1..n -> BOOLEAN] :
            /\ pr' = [pr EXCEPT !.cloud =
                         [k \in 1..n |-> AudioCloudEntry(pr.extracted[k], out[k])]]
            /\ caught' = IF \E k \in 1..n : ~out[k]
                         THEN caught \cup {"audio upload"} ELSE caught
    /\ pc' = "final_update"
    /\ UNCHANGED <<ioVars, cfg, file, attempt, tg, rec, disk, segCloud, now, uploadResp, dbFaults, wq>>

CompleteStatus == Status(100, "Processing complete", "none", FALSE, TRUE, <<>>)

\* the record update with the complete processing results
FinalUpdate ==
    /\ pc = "final_update" /\ wq = <<>>
    /\ \E ok \in DbOutcomes :
        /\ dbFaults' = DbCount(ok)
        /\ IF ok
           THEN /\ rec' = updateVideoMetadata(rec,
                    [hlsPlaylist |-> pr.hlsPath,
                     videoOnlyHLS |-> pr.videoOnlyHLS,
                     extractedAudioFiles |-> pr.cloud,
                     audioHLSStreams |-> pr.audioHLS,
                     hasMultiAudio |-> pr.hasMultiAudio,
                     streamingMethod |-> IF pr.hasMultiAudio
                                         THEN "multi-audio-adaptive" ELSE "adaptive",
                     processingStatus |-> CompleteStatus])
                /\ pc' = "hls_upload"
                /\ caught' = caught
           ELSE /\ rec' = rec
                /\ pc' = "proc_catch"
                /\ caught' = caught \cup {"processing"}
    /\ UNCHANGED <<ioVars, cfg, file, attempt, tg, disk, segCloud, pr, now, uploadResp, wq>>

(* ---- the files of hls/<videoId>/ ---- *)
\* segments per variant: the sources above 100 MB are the long ones
Segs == IF file.size > LargeChunkedMB THEN SegsLong ELSE SegsShort

\* a directory entry is <<kind, id>>; the masters are single files, every
\* variant or audio-track directory holds a playlist (0) and its segments
FilesOf(d) ==
    IF d[1] \in {"master", "vomaster"} THEN {<<d[1], d[2], 0>>}
    ELSE {<<d[1], d[2], k>> : k \in 0..Segs}

\* findHLSFiles: every .m3u8 and .ts file below the directory
findHLSFiles(dirs) == UNION {FilesOf(d) : d \in dirs}

\* the outcomes of a bulk upload tried here: no upload fails, the upload of
\* the first segment of the highest standard variant fails, all fail
FailChoices(dirs) ==
    LET std == {d \in dirs : d[1] = "std"}
        one == IF std = {} THEN {}
               ELSE LET d == CHOOSE e \in std : \A o \in std : e[2] >= o[2]
                    IN {{<<d[1], d[2], 1>>}}
    IN {{}} \cup one \cup {findHLSFiles(dirs)}

\* the result of uploadHLSFiles for the files found and the uploads that failed
uploadHLSFiles(hlsFiles, failed) ==
    IF hlsFiles = {} THEN [state |-> "empty", failed |-> {}, uploaded |-> FALSE]
    ELSE IF Cardinality(hlsFiles) > HlsFileCeiling
    THEN [state |-> "skipped", failed |-> {}, uploaded |-> FALSE]
    ELSE [state |-> "attempted", failed |-> failed,
          uploaded |-> Cardinality(hlsFiles \ failed) > 0]

\* the optional upload of the segment files, and the update of hlsCloudData
HlsUpload ==
    /\ pc = "hls_upload" /\ wq = <<>>
    /\ IF pr.hlsPath /\ tg.uploaded
       THEN \E failed \in FailChoices(disk.hls), ok \in DbOutcomes :
            LET r == uploadHLSFiles(findHLSFiles(disk.hls), failed) IN
            /\ segCloud' = [state |-> r.state, failed |-> r.failed]
            /\ dbFaults' = DbCount(ok)
            /\ rec' = IF ok
                      THEN updateVideoMetadata(rec,
                               [hlsCloudData |-> [set |-> TRUE,
                                                  uploaded |-> r.uploaded]])
                      ELSE rec
            /\ caught' = IF r.failed # {} THEN caught \cup {"segment upload"}
                         ELSE caught
       ELSE UNCHANGED <<segCloud, dbFaults, rec, caught>>
    /\ pc' = "audio_cleanup"
    /\ UNCHANGED <<ioVars, cfg, file, attempt, tg, disk, pr, now, uploadResp, wq>>

\* cleanupAudioFiles: the extracted files are removed
cleanupAudioFiles ==
    /\ pc = "audio_cleanup" /\ wq = <<>>
    /\ disk' = [disk EXCEPT !.audio = @ \ {pr.extracted[k] : k \in 1..Len(pr.extracted)}]
    /\ pc' = "cleanup"
    /\ UNCHANGED <<ioVars, cfg, file, attempt, tg, rec, segCloud, pr, now, uploadResp, caught, dbFaults, wq>>

\* the catch of the processing block: its status update, whose rejection by
\* the store is caught and logged by the .catch on the call
ProcCatch ==
    /\ pc = "proc_catch" /\ wq = <<>>
    /\ \E ok \in DbOutcomes :
        /\ dbFaults' = DbCount(ok)
        /\ wq' = IF ok
                 THEN <<Status(0, "none", "none", FALSE, FALSE,
                               <<"Video processing failed">>)>>
                 ELSE wq
        /\ pc' = "cleanup"
    /\ UNCHANGED <<ioVars, cfg, file, attempt, tg, rec, disk, segCloud, pr, now,
                   uploadResp, caught>>

forceCleanup == cfg.force

\* the cleanup with the backup of the segment files placed after it
CleanupBeforeBackup ==
    /\ pc = "cleanup" /\ wq = <<>>
    /\ IF tg.uploaded \/ forceCleanup
       THEN \E ok \in DbOutcomes :
            /\ dbFaults' = DbCount(ok)
            /\ IF ~ok
               THEN /\ disk' = [disk EXCEPT !.upload = FALSE]
                    /\ pc' = "outer_catch"
               ELSE /\ disk' = [disk EXCEPT
                         !.upload = FALSE,
                         !.hls = IF rec.hlsCloudData.uploaded \/ forceCleanup
                                 THEN {} ELSE @,
                         !.audio = {},
                         !.temp = @ \ ThumbFiles]
                    /\ pc' = "hls_upload"
       ELSE /\ disk' = disk
            /\ dbFaults' = dbFaults
            /\ pc' = "hls_upload"
    /\ UNCHANGED <<ioVars, cfg, file, attempt, tg, rec, segCloud, pr, now, uploadResp, caught, wq>>

\* the cleanup of local files after processing
Cleanup ==
    /\ pc = "cleanup" /\ wq = <<>>
    /\ IF tg.uploaded \/ forceCleanup
       THEN \E ok \in DbOutcomes :
            /\ dbFaults' = DbCount(ok)
            /\ IF ~ok
               THEN /\ disk' = [disk EXCEPT !.upload = FALSE]
                    /\ pc' = "outer_catch"
               ELSE /\ disk' = [disk EXCEPT
                         !.upload = FALSE,
                         !.hls = IF rec.hlsCloudData.uploaded \/ forceCleanup
                                 THEN {} ELSE @,
                         !.audio = {},
                         !.temp = @ \ ThumbFiles]
                    /\ pc' = "done"
       ELSE /\ disk' = disk
            /\ dbFaults' = dbFaults
            /\ pc' = "done"
    /\ UNCHANGED <<ioVars, cfg, file, attempt, tg, rec, segCloud, pr, now, uploadResp, caught, wq>>

\* the outer catch of the background task: the status update, whose
\* rejection by the store is caught and logged by the .catch on the call
OuterCatch ==
    /\ pc = "outer_catch" /\ wq = <<>>
    /\ caught' = caught \cup {"background"}
    /\ \E ok \in DbOutcomes :
        /\ dbFaults' = DbCount(ok)
        /\ wq' = IF ok
                 THEN <<Status(0, "none", "none", FALSE, TRUE,
                               <<"Background processing failed">>)>>
                 ELSE wq
        /\ pc' = "outer_cleanup"
    /\ UNCHANGED <<ioVars, cfg, file, attempt, tg, rec, disk, segCloud, pr, now,
                   uploadResp>>

\* the outer catch of the background task: the removal of the original
OuterCleanup ==
    /\ pc = "outer_cleanup" /\ wq = <<>>
    /\ disk' = IF tg.uploaded \/ forceCleanup
               THEN [disk EXCEPT !.upload = FALSE] ELSE disk
    /\ pc' = "done"
    /\ UNCHANGED <<ioVars, cfg, file, attempt, tg, rec, segCloud, pr, now, uploadResp, caught, dbFaults, wq>>

(* ---- time and the periodic sweep ---- *)
\* half an hour passes (time and the sweep are taken between the steps of the
\* task: they commute with the store applying a status update)
Tick ==
    /\ pc # "idle" /\ wq = <<>> /\ now < MaxTime
    /\ now' = now + 1
    /\ UNCHANGED <<ioVars, cfg, pc, file, attempt, tg, rec, disk, segCloud, pr, uploadResp, caught, dbFaults, wq>>

\* one run of the sweep over uploads/ and temp/
performAutomaticCleanup ==
    /\ wq = <<>>
    /\ disk' = [disk EXCEPT
           !.upload = @ /\ ~(now - disk.mtime > UploadMaxAge),
           !.temp = {t \in @ : ~(now - t.mtime > TempMaxAge)}]
    /\ UNCHANGED <<ioVars, cfg, pc, file, attempt, tg, rec, segCloud, pr, now, uploadResp, caught, dbFaults, wq>>

(* ---- playback ---- *)
\* The GET handlers read the record and the disk and change neither (the view
\* counter is not modelled): each is the operator giving its response in the
\* current state.
\* GET /api/video/:id/status: the status object of the stored record
StatusResponse ==
    LET ps == rec.processingStatus
    IN [telegramUploaded |-> rec.telegramData.uploaded,
        hlsComplete |-> rec.hlsPlaylist /\ rec.streamingMethod \in
                            {"adaptive", "multi-audio-adaptive"},
        hlsProgress |-> ps.hlsProgress,
        hlsStage |-> IF ps.hlsStage = "none" THEN "Starting..." ELSE ps.hlsStage,
        currentQuality |-> ps.currentQuality,
        thumbnailComplete |-> rec.cloudThumbnail,
        thumbnailGenerating |-> ps.thumbnailGenerating,
        processingComplete |-> ps.complete,
        processingErrors |-> ps.errors,
        hasHlsPlaylist |-> rec.hlsPlaylist,
        streamingMethod |-> rec.streamingMethod,
        hasThumbnail |-> rec.cloudThumbnail]

hlsAvailable == rec.hlsPlaylist \/ rec.streamingMethod = "adaptive"

\* the response of GET /api/stream/:id; cloudOk: the object store answers
StreamResponse(cloudOk) ==
    IF ~rec.exists THEN "video_not_found"
    ELSE IF ~rec.telegramData.uploaded
    THEN IF hlsAvailable THEN "redirect_manifest" ELSE "not_available"
    ELSE IF rec.telegramData.uploadMethod = "chunked" /\ rec.size > LargeChunkedMB
            /\ hlsAvailable
    THEN "redirect_manifest"
    ELSE IF cloudOk THEN "cloud_stream" ELSE "error"

\* the entries of extractedAudioFiles with the requested track index
AudioTrack(t) ==
    {k \in 1..Len(rec.extractedAudioFiles) : rec.extractedAudioFiles[k].trackIndex = t}

\* the response of GET /api/audio/:videoId/:trackIndex
AudioResponse(t, cloudOk) ==
    IF ~rec.exists THEN "video_not_found"
    ELSE IF AudioTrack(t) = {} THEN "track_not_found"
    ELSE LET a == rec.extractedAudioFiles[CHOOSE k \in AudioTrack(t) : TRUE] IN
         IF a.uploaded /\ cloudOk THEN "cloud_stream"
         ELSE IF a.hlsUrl THEN "redirect_track_manifest"
         ELSE IF <<"audio", t>> \in disk.hls THEN "redirect_track_manifest"
         ELSE IF rec.hlsPlaylist THEN "redirect_manifest"
         ELSE "not_available"

\* the response of GET /api/hls/:videoId/* for the file f of hls/<id>:
\* <<"master", 0>> is playlist.m3u8, <<"audio", t>> a file under audio/track_t
HlsResponse(f) ==
    IF ~rec.exists THEN "video_not_found"
    ELSE IF f \in disk.hls THEN "file"
    ELSE IF f[1] = "audio" THEN "redirect_manifest"
    ELSE IF f = <<"master", 0>> THEN "redirect_stream"
    ELSE "file_not_found"

\* the playback requests a client sends
PlaybackRequests ==
    {<<"stream", 0>>} \cup {<<"audio", t>> : t \in TrackIndexes}
        \cup {<<"hls", f>> : f \in {<<"master", 0>>, <<"std", 480>>}
                                   \cup {<<"audio", t>> : t \in TrackIndexes}}

\* the answer of the endpoint a request names
EndpointResponse(req, cloudOk) ==
    IF req[1] = "stream" THEN StreamResponse(cloudOk)
    ELSE IF req[1] = "audio" THEN AudioResponse(req[2], cloudOk)
    ELSE HlsResponse(req[2])

\* the request a redirecting answer sends the client to
RedirectTarget(req, r) ==
    IF r = "redirect_stream" THEN <<"stream", 0>>
    ELSE IF r = "redirect_manifest" THEN <<"hls", <<"master", 0>>>>
    ELSE <<"hls", <<"audio", req[2]>>>>

Redirects == {"redirect_stream", "redirect_manifest", "redirect_track_manifest"}

\* what a client that follows at most n redirects ends with
RECURSIVE Follow(_, _, _)
Follow(req, cloudOk, n) ==
    LET r == EndpointResponse(req, cloudOk) IN
    IF r \notin Redirects THEN r
    ELSE IF n = 0 THEN "redirecting"
    ELSE Follow(RedirectTarget(req, r), cloudOk, n - 1)

(* ---- the object-store adapter: one upload and its download ---- *)
\* The file is a sequence of MB-sized blocks, block k holding the value k, so
\* that any loss, repetition or reordering shows in the downloaded sequence.
pipeVars == <<cfg, pc, file, attempt, tg, rec, disk, segCloud, pr, now,
              uploadResp, caught, dbFaults, wq>>

\* the part count rounded down instead of up
numChunksFloor(fileSize, size) == fileSize \div size

\* Math.ceil(fileSize / size)
numChunks(fileSize, size) == (fileSize + size - 1) \div size

\* fs.createReadStream(path, {start, end}): the blocks start..end, end included,
\* as far as the file has them
ReadRange(f, start, end) ==
    [k \in 1..(Min(end + 1, Len(f)) - start) |-> f[start + k]]

\* splitVideoFile: the contents of temp/chunk_0.bin, chunk_1.bin, ...
splitVideoFile(f, size) ==
    [c \in 1..numChunks(Len(f), size) |->
        LET start == (c - 1) * size
            end == Min(start + size, Len(f))
        IN ReadRange(f, start, end - 1)]

\* the size test with the limit itself counted as exceeding
ExceedsLimitIncl(fileSize) == fileSize >= maxFileSize

\* the size test of uploadVideo and of uploadToChannel
ExceedsLimit(fileSize) == fileSize > maxFileSize

\* an upload of a file to a channel begins: uploadVideo for the primary
\* channel (with retries), its background loop for a backup channel
UpStart ==
    /\ up.pc = "idle"
    /\ \E size \in UpSizes, dest \in Destinations :
        up' = [NoUp EXCEPT !.pc = "attempt", !.dest = dest,
                           !.src = [k \in 1..size |-> k], !.attempt = 1]
    /\ UNCHANGED <<pipeVars, exceptUp>>

\* one attempt begins: the size test, and the split of a file above the limit
UpAttempt ==
    /\ up.pc = "attempt"
    /\ up' = IF ExceedsLimit(Len(up.src))
             THEN [up EXCEPT !.pc = "send_chunk",
                             !.temp = splitVideoFile(up.src, chunkSize),
                             !.i = 0, !.uploadedChunks = <<>>, !.sends = 0]
             ELSE [up EXCEPT !.pc = "send_single", !.sends = 0]
    /\ UNCHANGED <<pipeVars, exceptUp>>

\* the same pause after every failed attempt
RetryPauseFlat(a) == retryDelay

\* uploadWithRetry: the pause after the failed attempt
RetryPause(a) == retryDelay * a

\* uploadWithRetry after an attempt threw: the error is rethrown after the
\* last attempt, otherwise the pause and the next attempt; a backup upload
\* is tried once
UpThrown ==
    IF up.dest = "primary" /\ up.attempt < maxRetries
    THEN [up EXCEPT !.pc = "attempt", !.attempt = @ + 1,
                    !.slept = Append(@, RetryPause(up.attempt))]
    ELSE [up EXCEPT !.pc = "failed"]

\* uploadSmallVideoToChannel: sendVideo with the whole file
UpSendSingle ==
    /\ up.pc = "send_single"
    /\ \E ok \in BOOLEAN :
        up' = IF ok
              THEN [up EXCEPT !.pc = "stored", !.sends = @ + 1,
                              !.record = [uploaded |-> TRUE,
                                          uploadMethod |-> "single",
                                          chunks |-> <<>>, data |-> up.src]]
              ELSE [UpThrown EXCEPT !.sends = up.sends + 1]
    /\ UNCHANGED <<pipeVars, exceptUp>>

\* uploadLargeVideoToChannel, one iteration: sendDocument with chunk i
UpSendChunk ==
    /\ up.pc = "send_chunk" /\ up.i < Len(up.temp)
    /\ \E ok \in BOOLEAN :
        up' = IF ok
              THEN [up EXCEPT !.i = @ + 1,
                              !.uploadedChunks =
                                  Append(@, [part |-> up.i + 1,
                                             data |-> up.temp[up.i + 1]])]
              ELSE UpThrown
    /\ UNCHANGED <<pipeVars, exceptUp>>

\* uploadLargeVideoToChannel returns the chunked record
UpChunksDone ==
    /\ up.pc = "send_chunk" /\ up.i = Len(up.temp)
    /\ up' = [up EXCEPT !.pc = "stored",
                        !.record = [uploaded |-> TRUE, uploadMethod |-> "chunked",
                                    chunks |-> up.uploadedChunks, data |-> <<>>]]
    /\ UNCHANGED <<pipeVars, exceptUp>>

\* downloadVideo begins for the stored record
downloadVideo ==
    /\ up.pc = "stored"
    /\ up' = IF up.record.uploadMethod = "single"
             THEN [up EXCEPT !.pc = "downloaded", !.out = up.record.data]
             ELSE [up EXCEPT !.pc = "download", !.i = 0, !.out = <<>>]
    /\ UNCHANGED <<pipeVars, exceptUp>>

\* downloadChunkedVideo, one iteration: the next chunk of the record is
\* written to the output
downloadChunkedVideo ==
    /\ up.pc = "download"
    /\ up' = IF up.i < Len(up.record.chunks)
             THEN [up EXCEPT !.i = @ + 1,
                             !.out = @ \o up.record.chunks[up.i + 1].data]
             ELSE [up EXCEPT !.pc = "downloaded"]
    /\ UNCHANGED <<pipeVars, exceptUp>>

AdapterNext ==
    \/ UpStart
    \/ UpAttempt
    \/ UpSendSingle
    \/ UpSendChunk
    \/ UpChunksDone
    \/ downloadVideo
    \/ downloadChunkedVideo

AdapterSpec == Init /\ [][AdapterNext]_vars

(* ---- GET /api/stream/:id: the headers of a cloud-streamed response ---- *)
\* A header value is the sequence of its characters; a header that is not
\* set is the empty sequence.
DigitChars == <<"0", "1", "2", "3", "4", "5", "6", "7", "8", "9">>
IsDigit(c) == \E d \in 0..9 : DigitChars[d + 1] = c
DigitValue(c) == CHOOSE d \in 0..9 : DigitChars[d + 1] = c

\* the decimal text of a non-negative integer
RECURSIVE Digits(_)
Digits(n) ==
    IF n < 10 THEN <<DigitChars[n + 1]>>
    ELSE Digits(n \div 10) \o <<DigitChars[(n % 10) + 1]>>

\* String(x) of a template literal or of a header value
ToText(x) ==
    IF x.nan THEN <<"NaN">>
    ELSE IF x.v < 0 THEN <<"-">> \o Digits(-x.v) ELSE Digits(x.v)

\* index of the first occurrence of token c in str, 0 if there is none
IndexOf(str, c) ==
    IF \E i \in 1..Len(str) : str[i] = c
    THEN CHOOSE i \in 1..Len(str) :
            str[i] = c /\ \A j \in 1..(i - 1) : str[j] # c
    ELSE 0

\* range.replace(/bytes=/, ""): the first occurrence is removed
replaceBytes(str) ==
    LET i == IndexOf(str, "bytes=")
    IN IF i = 0 THEN str
       ELSE SubSeq(str, 1, i - 1) \o SubSeq(str, i + 1, Len(str))

\* str.split("-")
RECURSIVE split(_)
split(str) ==
    LET d == IndexOf(str, "-")
    IN IF d = 0 THEN <<str>>
       ELSE <<SubSeq(str, 1, d - 1)>> \o split(SubSeq(str, d + 1, Len(str)))

\* the number of digits str begins with
RECURSIVE LeadingDigits(_)
LeadingDigits(str) ==
    IF str = <<>> \/ ~IsDigit(Head(str)) THEN 0
    ELSE 1 + LeadingDigits(Tail(str))

RECURSIVE DecimalValue(_)
DecimalValue(ds) ==
    IF ds = <<>> THEN 0
    ELSE DecimalValue(SubSeq(ds, 1, Len(ds) - 1)) * 10 + DigitValue(ds[Len(ds)])

\* parseInt(str, 10): the digits str begins with, NaN if it begins with none
parseInt(str) ==
    LET k == LeadingDigits(str)
    IN IF k = 0 THEN NaN ELSE Num(DecimalValue(SubSeq(str, 1, k)))

\* the end of a range whose header gives none
DefaultEndLength(contentLength) == Num(contentLength)

DefaultEnd(contentLength) == Num(contentLength - 1)

\* (end - start) + 1 in floating point: NaN if either operand is
RangeChunkSize(start, end) ==
    IF start.nan \/ end.nan THEN NaN ELSE Num((end.v - start.v) + 1)

\* the status and the headers the handler sets for a source of the given
\* content length
RangeResponse(range, contentLength, acceptsRanges) ==
    LET truthy == range.present /\ range.text # <<>>
        parts == split(replaceBytes(range.text))
        start == parseInt(parts[1])
        end == IF Len(parts) >= 2 /\ parts[2] # <<>>
               THEN parseInt(parts[2])
               ELSE DefaultEnd(contentLength)
        base == [pc |-> "sent", range |-> range, contentLength |-> contentLength,
                 acceptsRanges |-> acceptsRanges, start |-> NaN, end |-> NaN,
                 status |-> 200, ContentRange |-> <<>>, ContentLength |-> <<>>]
    IN IF truthy /\ acceptsRanges
       THEN [base EXCEPT
                !.start = start, !.end = end, !.status = 206,
                !.ContentRange = <<"bytes ">> \o ToText(start) \o <<"-">>
                                 \o ToText(end) \o <<"/">>
                                 \o ToText(Num(contentLength)),
                !.ContentLength = ToText(RangeChunkSize(start, end))]
       ELSE IF ~truthy
       THEN [base EXCEPT !.ContentLength = ToText(Num(contentLength))]
       ELSE base

\* the Range headers of the requests: none, or any text of up to
\* MaxHeaderLen tokens
RangeHeaders ==
    {NoHeader} \cup
    {[present |-> TRUE, text |-> t] :
        t \in UNION {[1..n -> Tokens] : n \in 0..MaxHeaderLen}}

\* one request answered from the cloud copy
StreamFromCloud ==
    /\ rq.pc = "idle"
    /\ \E range \in RangeHeaders, contentLength \in ContentLengths,
          acceptsRanges \in BOOLEAN :
        rq' = RangeResponse(range, contentLength, acceptsRanges)
    /\ UNCHANGED <<pipeVars, exceptRq>>

RangeNext == StreamFromCloud

RangeSpec == Init /\ [][RangeNext]_vars

(* ---- uploadVideo and the replication to the backup channels ---- *)
\* the backup loop is scheduled inside the try block, after the primary
\* upload returned, when backup channels are configured
BackupsScheduledAlways(primaryOk, n) == n > 0

BackupsScheduled(primaryOk, n) == primaryOk /\ n > 0

\* uploadVideo is called; without a bot or without the file it returns at once
RpCall ==
    /\ rp.pc = "idle"
    /\ \E n \in 0..MaxBackups, configured \in BOOLEAN, there \in BOOLEAN :
        rp' = IF configured /\ there
              THEN [NoRp EXCEPT !.pc = "primary", !.nBackups = n,
                                !.attempt = 1, !.fileThere = TRUE]
              ELSE [NoRp EXCEPT !.pc = "returned", !.nBackups = n,
                                !.fileThere = there,
                                !.returned = [set |-> TRUE, uploaded |-> FALSE]]
    /\ UNCHANGED <<pipeVars, exceptRp>>

\* one attempt of the primary upload; after the last one, or after a
\* success, uploadVideo schedules the backups with setImmediate (after a
\* success only) and returns
RpPrimary ==
    /\ rp.pc = "primary"
    /\ \E ok \in BOOLEAN :
        rp' = IF ~ok /\ rp.attempt < maxRetries
              THEN [rp EXCEPT !.attempt = @ + 1]
              ELSE [rp EXCEPT
                      !.pc = "returned",
                      !.primary = IF ok THEN "ok" ELSE "failed",
                      !.returned = [set |-> TRUE, uploaded |-> ok],
                      !.bpc = IF BackupsScheduled(ok, rp.nBackups)
                              THEN "scheduled" ELSE "none"]
    /\ UNCHANGED <<pipeVars, exceptRp>>

\* the caller, having the result, goes on; its cleanup may remove the file
RpCallerRemovesFile ==
    /\ rp.returned.set /\ rp.fileThere
    /\ rp' = [rp EXCEPT !.fileThere = FALSE]
    /\ UNCHANGED <<pipeVars, exceptRp>>

\* the setImmediate callback begins: it gives up when the file is gone
RpBackupsBegin ==
    /\ rp.bpc = "scheduled"
    /\ rp' = [rp EXCEPT !.bpc = IF rp.fileThere THEN "loop" ELSE "skipped"]
    /\ UNCHANGED <<pipeVars, exceptRp>>

\* one iteration of the backup loop: uploadToChannel in its own try/catch
RpBackup ==
    /\ rp.bpc = "loop" /\ rp.k < rp.nBackups
    /\ \E ok \in (IF rp.fileThere THEN BOOLEAN ELSE {FALSE}) :
        rp' = [rp EXCEPT !.k = @ + 1, !.backups = Append(@, ok)]
    /\ UNCHANGED <<pipeVars, exceptRp>>

\* the backup loop ends and logs the count of successful backups
RpBackupsEnd ==
    /\ rp.bpc = "loop" /\ rp.k = rp.nBackups
    /\ rp' = [rp EXCEPT !.bpc = "done"]
    /\ UNCHANGED <<pipeVars, exceptRp>>

ReplicaNext ==
    \/ RpCall
    \/ RpPrimary
    \/ RpCallerRemovesFile
    \/ RpBackupsBegin
    \/ RpBackup
    \/ RpBackupsEnd

ReplicaSpec == Init /\ [][ReplicaNext]_vars

(* ---- the quality ladder of a source ---- *)
\* convertToHLSWithProgress and createVideoOnlyHLS both begin by calling
\* getQualityLevels with the probed metadata
LadderCall ==
    /\ ql.pc = "idle"
    /\ \E h \in 1..MaxSourceHeight :
        ql' = [pc |-> "done", height |-> h, qualities |-> getQualityLevels(h)]
    /\ UNCHANGED <<pipeVars, exceptQl>>

LadderNext == LadderCall

LadderSpec == Init /\ [][LadderNext]_vars

(* ---- cleanup_hls.js: the manual cleanup of the HLS directories ---- *)
\* what data/videos.json holds for the video of a directory: no entry, an
\* entry without a cloud copy of the video, with a cloud copy of the video
\* only, or with a cloud copy of the video and of its HLS files
DbEntries == {"none", "not_uploaded", "video_uploaded", "hls_uploaded"}

\* the state of data/videos.json: readable, missing, or not parseable
DatabaseStates == {"loaded", "missing", "corrupt"}

\* the entry the script sees: an empty database has no entry for any video
videoEntry(database, dir) == IF database = "loaded" THEN dir.entry ELSE "none"

\* the decision of the analysis loop for one directory
shouldCleanup(dir, database, force) ==
    LET entry == videoEntry(database, dir)
        hasValidTelegramUpload == entry \in {"video_uploaded", "hls_uploaded"}
        hlsUploadedToTelegram == entry = "hls_uploaded"
    IN IF ~dir.isOld THEN FALSE
       ELSE IF entry = "none" THEN TRUE
       ELSE IF ~hasValidTelegramUpload THEN FALSE
       ELSE IF hlsUploadedToTelegram THEN TRUE
       ELSE IF force THEN TRUE
       ELSE hasValidTelegramUpload

\* run(): the options are read, the database is loaded and every directory
\* under hls/ is analysed
HcAnalyse ==
    /\ hc.pc = "idle"
    /\ \E force \in BOOLEAN, dryRun \in BOOLEAN, database \in DatabaseStates,
          n \in 0..MaxDirs :
        \E dirs \in [1..n -> [isOld : BOOLEAN, entry : DbEntries]] :
            LET toCleanup == {d \in 1..n : shouldCleanup(dirs[d], database, force)}
            IN hc' = [pc |-> IF (database # "loaded" /\ ~force)
                                \/ toCleanup = {} \/ dryRun
                             THEN "ended" ELSE "cleanup",
                      force |-> force, dryRun |-> dryRun, database |-> database,
                      dirs |-> dirs,
                      toCleanup |-> IF database # "loaded" /\ ~force
                                    THEN {} ELSE toCleanup,
                      present |-> 1..n]
    /\ UNCHANGED <<pipeVars, exceptHc>>

\* run(): the directories chosen are removed
HcPerform ==
    /\ hc.pc = "cleanup"
    /\ hc' = [hc EXCEPT !.pc = "ended", !.present = @ \ hc.toCleanup]
    /\ UNCHANGED <<pipeVars, exceptHc>>

HlsCleanupNext ==
    \/ HcAnalyse
    \/ HcPerform

HlsCleanupSpec == Init /\ [][HlsCleanupNext]_vars

Next ==
    \/ DbWrite
    \/ UploadRequest
    \/ uploadVideo
    \/ SaveAndRespond
    \/ BgThumbStart
    \/ BgThumbExtract
    \/ BgThumbStore
    \/ MAStart
    \/ ExtractTrack
    \/ ExtractDone
    \/ VOQuality
    \/ VOFinish
    \/ StdStart
    \/ StdQuality
    \/ StdFinish
    \/ AudioHlsTrack
    \/ AudioHlsDone
    \/ AudioUploads
    \/ FinalUpdate
    \/ HlsUpload
    \/ cleanupAudioFiles
    \/ ProcCatch
    \/ Cleanup
    \/ OuterCatch
    \/ OuterCleanup
    \/ Tick
    \/ performAutomaticCleanup

Spec == Init /\ [][Next]_vars

(* ---- the status writes of one quality encode ---- *)
\* convertToHLSWithProgress awaits the callbacks it issues itself; the ffmpeg
\* event handlers of generateHLSVariantWithProgress issue theirs without
\* awaiting them. A write is in flight from its call until the store has
\* applied it; the store applies the writes in flight in any order.
\* the awaited status writes of the run, in the order of their calls
AwaitedStages(ok) ==
    IF ok THEN <<"Starting quality", "Completed quality", "Creating master playlist",
                 "HLS generation complete", "final status">>
    ELSE <<"Starting quality", "Failed to generate", "Creating master playlist",
           "processing failed">>

\* a call of updateVideoMetadata with a processingStatus
IssueWrite(w, stage) ==
    [w EXCEPT !.seq = @ + 1,
              !.inflight = @ \cup {[seq |-> w.seq + 1, stage |-> stage]}]

\* 'await progressCallback(...)' by the loop or by the background task
PwIssueAwaited ==
    /\ pw.pc \in {"before", "after"}
    /\ pw' = [IssueWrite(pw, AwaitedStages(pw.ok)[pw.k])
                 EXCEPT !.pc = "await", !.awaited = pw.seq + 1]
    /\ UNCHANGED <<pipeVars, exceptPw>>

\* the awaited write was applied: the caller goes on
PwResume ==
    /\ pw.pc = "await"
    /\ \A w \in pw.inflight : w.seq # pw.awaited
    /\ pw' = [pw EXCEPT !.k = @ + 1,
                        !.pc = IF pw.k = 1 THEN "encoding"
                               ELSE IF pw.k = Len(AwaitedStages(pw.ok)) THEN "done"
                               ELSE "after"]
    /\ UNCHANGED <<pipeVars, exceptPw>>

\* The handlers of ffmpeg issue 'progressCallback(...).catch(...)' and do not
\* await it.
\* ffmpeg 'start': progressCallback(0)
PwFfmpegStart ==
    /\ pw.pc = "encoding" /\ ~pw.started
    /\ pw' = [IssueWrite(pw, "Processing") EXCEPT !.started = TRUE]
    /\ UNCHANGED <<pipeVars, exceptPw>>

\* ffmpeg 'progress': progressCallback(percent)
PwFfmpegProgress ==
    /\ pw.pc = "encoding" /\ pw.started /\ pw.events < MaxProgressEvents
    /\ pw' = [IssueWrite(pw, "Processing") EXCEPT !.events = @ + 1]
    /\ UNCHANGED <<pipeVars, exceptPw>>

\* ffmpeg 'end': progressCallback(100), then the promise resolves
PwFfmpegEnd ==
    /\ pw.pc = "encoding" /\ pw.started
    /\ pw' = [IssueWrite(pw, "Processing") EXCEPT !.pc = "after"]
    /\ UNCHANGED <<pipeVars, exceptPw>>

\* ffmpeg 'error': the promise rejects, the loop's catch follows
PwFfmpegError ==
    /\ pw.pc = "encoding" /\ pw.started
    /\ pw' = [pw EXCEPT !.pc = "after", !.ok = FALSE]
    /\ UNCHANGED <<pipeVars, exceptPw>>

\* the store completes one of the writes in flight
PwApply ==
    /\ \E w \in pw.inflight :
        pw' = [pw EXCEPT !.stored = w, !.inflight = @ \ {w}]
    /\ UNCHANGED <<pipeVars, exceptPw>>

ProgressNext ==
    \/ PwIssueAwaited \/ PwResume \/ PwFfmpegStart \/ PwFfmpegProgress
    \/ PwFfmpegEnd \/ PwFfmpegError \/ PwApply

ProgressSpec == Init /\ [][ProgressNext]_vars

(* ---- two chunked uploads at once: the part files in temp/ ---- *)
\* <<p, i>> stands for the bytes of range i of the source of upload p; the
\* file temp/chunk_<i>.bin holds such a range or is absent (NoPart).
chunkPath(p, i) == i

\* uploadLargeVideoToChannel is called for a source of n parts
CuStart(p) ==
    /\ cu.u[p].pc = "idle"
    /\ \E n \in 2..MaxParts :
        cu' = [cu EXCEPT !.u[p] = [pc |-> "split", n |-> n, i |-> 0, sent |-> <<>>]]
    /\ UNCHANGED <<pipeVars, exceptCu>>

\* splitVideoFile: one iteration writes range i of the source to chunkPath
CuSplitChunk(p) ==
    LET u == cu.u[p] IN
    /\ u.pc = "split"
    /\ cu' = [cu EXCEPT !.temp[chunkPath(p, u.i)] = <<p, u.i>>,
                        !.u[p].i = IF u.i + 1 = u.n THEN 0 ELSE u.i + 1,
                        !.u[p].pc = IF u.i + 1 = u.n THEN "send" ELSE "split"]
    /\ UNCHANGED <<pipeVars, exceptCu>>

\* the upload loop: the part file is read and sent; a missing file makes the
\* read stream fail and the upload throw
CuSendChunk(p) ==
    LET u == cu.u[p]
        bytes == cu.temp[chunkPath(p, u.i)] IN
    /\ u.pc = "send"
    /\ cu' = IF bytes = NoPart
             THEN [cu EXCEPT !.u[p].pc = "failed"]
             ELSE [cu EXCEPT !.u[p].sent = Append(@, bytes), !.u[p].pc = "remove"]
    /\ UNCHANGED <<pipeVars, exceptCu>>

\* the upload loop: fs.remove(chunkPath), then the next part or the return
CuRemoveChunk(p) ==
    LET u == cu.u[p] IN
    /\ u.pc = "remove"
    /\ cu' = [cu EXCEPT !.temp[chunkPath(p, u.i)] = NoPart,
                        !.u[p].i = @ + 1,
                        !.u[p].pc = IF u.i + 1 = u.n THEN "done" ELSE "send"]
    /\ UNCHANGED <<pipeVars, exceptCu>>

ConcurrentNext ==
    \E p \in Uploads :
        \/ CuStart(p) \/ CuSplitChunk(p) \/ CuSendChunk(p) \/ CuRemoveChunk(p)

ConcurrentSpec == Init /\ [][ConcurrentNext]_vars

(* ---- the audio-track upload fan-out and its timeouts ---- *)
\* Times are in seconds. Every upload of the fan-out is raced against its own
\* timer; the fan-out as a whole is raced against the group timer. A race that
\* is lost does not stop the loser: the upload goes on reading its file.
AudioUploadTimeout == 30
GroupTimeout == 300
Durations == {10, 30, 40, 400}      \* how long an upload takes

\* no per-track timers at all
NoTrackTimers(n) == {}

\* the timers armed by the fan-out: one per track
TrackTimers(n) == 1..n

\* the instants at which something is still to happen
PendingTimes ==
    {fo.dur[k] : k \in {j \in 1..fo.n : fo.io[j] = "running"}}
        \cup {AudioUploadTimeout : k \in fo.timers}
        \cup (IF fo.groupTimer THEN {GroupTimeout} ELSE {})

\* an event at this instant is the next to happen; the continuation of a
\* settled Promise.all (a microtask) runs before any timer or I/O event
IsNext(time) ==
    /\ \A x \in PendingTimes : time <= x
    /\ ~(fo.pc = "waiting" /\ \A k \in 1..fo.n : fo.entry[k] # "none")

Unsettled == {k \in 1..fo.n : fo.entry[k] = "none"}

\* extractedAudioFiles.map(async ...): every upload and its timer start
FoStart ==
    /\ fo.pc = "idle"
    /\ \E n \in 1..MaxTracks :
       \E dur \in [1..n -> Durations], willOk \in [1..n -> BOOLEAN] :
        fo' = [pc |-> "waiting", n |-> n, t |-> 0, dur |-> dur, willOk |-> willOk,
               io |-> [k \in 1..n |-> "running"],
               entry |-> [k \in 1..n |-> "none"],
               timers |-> TrackTimers(n), groupTimer |-> TRUE,
               cloud |-> <<>>, files |-> 1..n]
    /\ UNCHANGED <<pipeVars, exceptFo>>

\* uploadVideo of track k returns: its result wins the race if the timer has
\* not fired
FoUploadSettles(k) ==
    /\ fo.pc # "idle" /\ k \in 1..fo.n /\ fo.io[k] = "running"
    /\ IsNext(fo.dur[k])
    /\ LET ok == fo.willOk[k] /\ k \in fo.files IN
       fo' = [fo EXCEPT !.t = fo.dur[k],
                        !.io[k] = IF ok THEN "ok" ELSE "failed",
                        !.entry[k] = IF @ # "none" THEN @
                                     ELSE IF ok THEN "uploaded" ELSE "failed",
                        !.timers = @ \ {k}]
    /\ UNCHANGED <<pipeVars, exceptFo>>

\* a timer fires: the 30 s timer of a track rejects its race, which the catch
\* of the track turns into a failed entry; the group timer rejects the race
\* of the fan-out, which has an effect only if that race is still open
FoTimerFires ==
    /\ \/ \E k \in fo.timers :
            /\ IsNext(AudioUploadTimeout)
            /\ fo' = [fo EXCEPT !.t = AudioUploadTimeout, !.entry[k] = "failed",
                                !.timers = @ \ {k}]
       \/ /\ fo.groupTimer /\ IsNext(GroupTimeout)
          /\ fo' = [fo EXCEPT !.t = GroupTimeout, !.groupTimer = FALSE,
                              !.pc = IF fo.pc = "waiting" THEN "catch" ELSE @]
    /\ UNCHANGED <<pipeVars, exceptFo>>

\* the task goes on as soon as one upload has settled
FoAnySettled ==
    /\ fo.pc \in {"waiting", "catch"} /\ Unsettled # 1..fo.n
    /\ fo' = [fo EXCEPT !.pc = "continued", !.cloud = fo.entry]
    /\ UNCHANGED <<pipeVars, exceptFo>>

\* Promise.all, or in the catch Promise.allSettled, resolves: audioCloudData
\* is the list of the entries and the task goes on
FoAllSettled ==
    /\ fo.pc \in {"waiting", "catch"} /\ Unsettled = {}
    /\ fo' = [fo EXCEPT !.pc = "continued", !.cloud = fo.entry]
    /\ UNCHANGED <<pipeVars, exceptFo>>

\* cleanupAudioFiles: every extracted audio file is removed
FoCleanup ==
    /\ fo.pc = "continued"
    /\ fo' = [fo EXCEPT !.pc = "cleaned", !.files = {}]
    /\ UNCHANGED <<pipeVars, exceptFo>>

FanoutNext ==
    \/ FoStart \/ (\E k \in 1..MaxTracks : FoUploadSettles(k))
    \/ FoTimerFires \/ FoAllSettled \/ FoCleanup

FanoutSpec == Init /\ [][FanoutNext]_vars

(* ---- uploadHLSFiles: the batches of the bulk upload ---- *)
\* the numbers of .m3u8 and .ts files found under hls/<videoId>/
CandidateCounts == {0, 1, 4, 7, HlsFileCeiling, HlsFileCeiling + 1}

\* the ceiling itself counts as too many
TooManyFilesIncl(n) == n >= HlsFileCeiling

\* 'hlsFiles.length > 100': the bulk upload is skipped
TooManyFiles(n) == n > HlsFileCeiling

\* every remaining file at once
batchAll(i, n) == (i + 1)..n

\* hlsFiles.slice(i, i + batchSize), as file numbers
batch(i, n) == (i + 1)..Min(i + batchSize, n)

\* the uploads of a batch as batch.map(async ...) starts them
NewSlots(files) ==
    [f \in files |-> [st |-> "ready", tries |-> 0, limited |-> 0]]

\* uploadHLSFiles is called: the files are found and counted
BuStart ==
    /\ bu.pc = "idle"
    /\ \E n \in CandidateCounts :
        bu' = IF n = 0
              THEN [NoBu EXCEPT !.pc = "returned", !.result = "empty"]
              ELSE IF TooManyFiles(n)
              THEN [NoBu EXCEPT !.pc = "returned", !.n = n, !.result = "skipped"]
              ELSE [NoBu EXCEPT !.pc = "batch", !.n = n,
                                !.slots = NewSlots(batch(0, n)),
                                !.covered = Cardinality(batch(0, n))]
    /\ UNCHANGED <<pipeVars, exceptBu>>

\* sendDocument is called for a file of the batch
BuSend(f) ==
    /\ bu.pc = "batch" /\ f \in DOMAIN bu.slots /\ bu.slots[f].st = "ready"
    /\ bu' = [bu EXCEPT !.slots[f].st = "sending", !.slots[f].tries = @ + 1,
                        !.sent = TRUE]
    /\ UNCHANGED <<pipeVars, exceptBu>>

\* sendDocument settles: stored, rejected with 429, or rejected otherwise
BuSettle(f) ==
    /\ bu.pc = "batch" /\ f \in DOMAIN bu.slots /\ bu.slots[f].st = "sending"
    /\ \E outcome \in {"ok", "429", "error"} :
        bu' = IF outcome = "ok"
              THEN [bu EXCEPT !.slots[f].st = "uploaded", !.anyUploaded = TRUE]
              ELSE IF outcome = "429"
              THEN [bu EXCEPT !.slots[f].st = "backoff", !.slots[f].limited = @ + 1]
              ELSE [bu EXCEPT !.slots[f].st = "failed"]
    /\ UNCHANGED <<pipeVars, exceptBu>>

\* the 45 s sleep after a 429 ends: retries++, then the next attempt or the
\* failed result
BuWake(f) ==
    /\ bu.pc = "batch" /\ f \in DOMAIN bu.slots /\ bu.slots[f].st = "backoff"
    /\ bu' = [bu EXCEPT !.slots[f].st =
                 IF bu.slots[f].limited < maxSegmentRetries THEN "ready" ELSE "failed"]
    /\ UNCHANGED <<pipeVars, exceptBu>>

\* Promise.all(batchPromises) resolves: the pause before the next batch, or
\* the result
BuBatchDone ==
    /\ bu.pc = "batch"
    /\ \A f \in DOMAIN bu.slots : bu.slots[f].st \in {"uploaded", "failed"}
    /\ bu' = IF bu.i + batchSize < bu.n
             THEN [bu EXCEPT !.pc = "pause"]
             ELSE [bu EXCEPT !.pc = "returned", !.result = "attempted"]
    /\ UNCHANGED <<pipeVars, exceptBu>>

\* sleep(batchDelay) ends: the next iteration of the loop
BuPauseEnds ==
    /\ bu.pc = "pause"
    /\ LET next == batch(bu.i + batchSize, bu.n) IN
       bu' = [bu EXCEPT !.pc = "batch", !.i = @ + batchSize,
                        !.slots = NewSlots(next),
                        !.covered = @ + Cardinality(next), !.pauses = @ + 1]
    /\ UNCHANGED <<pipeVars, exceptBu>>

BulkNext ==
    \/ BuStart \/ BuBatchDone \/ BuPauseEnds
    \/ \E f \in 1..HlsFileCeiling : BuSend(f) \/ BuSettle(f) \/ BuWake(f)

BulkSpec == Init /\ [][BulkNext]_vars

(* ---- GET /api/hls/:videoId/*: the file a request path names ---- *)
\* A name is a sequence of characters and a path a sequence of names. Video
\* ids are uuids: all of the same length, here two characters.
VideoIds == {<<"a", "b">>, <<"a", "c">>}
DotDot == <<".", ".">>
HlsRoot == <<"h">>                 \* the directory hls under __dirname
SegmentFile == <<"f">>             \* a manifest or segment file name
PathNames == {DotDot, SegmentFile, HlsRoot, <<"a", "c">>, <<"a", "b", "f">>}

RequestPaths == UNION {[1..n -> PathNames] : n \in 1..MaxPathLen}

\* the files on disk: those of the stored videos, and files outside them
FilesOnDisk(videos) ==
    {<<HlsRoot, v, SegmentFile>> : v \in videos}
        \cup {<<SegmentFile>>, <<HlsRoot, SegmentFile>>}

\* path.join(base, rel): the names of rel are appended, '..' removes the last
RECURSIVE pathJoin(_, _)
pathJoin(base, rel) ==
    IF rel = <<>> THEN base
    ELSE IF Head(rel) = DotDot
    THEN pathJoin(IF base = <<>> THEN base ELSE SubSeq(base, 1, Len(base) - 1),
                  Tail(rel))
    ELSE pathJoin(Append(base, Head(rel)), Tail(rel))

\* a path as the string the code compares: '/' before every name
RECURSIVE PathString(_)
PathString(p) ==
    IF p = <<>> THEN <<>> ELSE <<"/">> \o Head(p) \o PathString(Tail(p))

\* no prefix test at all
startsWithAnything(str, prefix) == TRUE

\* String.prototype.startsWith
startsWith(str, prefix) ==
    Len(prefix) <= Len(str) /\ SubSeq(str, 1, Len(prefix)) = prefix

\* the handler: what it answers and the file it streams
HlsServe(videos, videoId, requestPath) ==
    LET hlsDir == <<HlsRoot, videoId>>
        filePath == pathJoin(hlsDir, requestPath) IN
    IF videoId \notin videos THEN [answer |-> "video_not_found", served |-> <<>>]
    ELSE IF ~startsWith(PathString(filePath), PathString(hlsDir))
    THEN [answer |-> "forbidden", served |-> <<>>]
    ELSE IF filePath \notin FilesOnDisk(videos)
    THEN [answer |-> "not_found_or_redirect", served |-> <<>>]
    ELSE [answer |-> "file", served |-> filePath]

\* a video is stored and its segment directory written
HsStore ==
    /\ \E v \in VideoIds \ hs.videos :
        hs' = [hs EXCEPT !.videos = @ \cup {v}]
    /\ UNCHANGED <<pipeVars, exceptHs>>

\* a request arrives and is answered (the handler keeps no state: one
\* request per behaviour shows every answer)
HsRequest ==
    /\ hs.answer = "none"
    /\ \E videoId \in VideoIds, requestPath \in RequestPaths :
        LET r == HlsServe(hs.videos, videoId, requestPath) IN
        hs' = [hs EXCEPT !.videoId = videoId, !.requestPath = requestPath,
                         !.answer = r.answer, !.served = r.served]
    /\ UNCHANGED <<pipeVars, exceptHs>>

ServeNext == HsStore \/ HsRequest

ServeSpec == Init /\ [][ServeNext]_vars

(* ---- properties ---- *)
\* the background task has returned and every status update is stored
RunEnded == pc = "done" /\ wq = <<>>

\* the background task is between its first step and its return
RunInProgress == pc \notin {"idle", "upload_primary", "save", "rejected", "done"}

\* C1: the background run of every accepted upload ends with the stored
\* processingStatus.complete true, whichever phases failed on the way
C1_CompleteWhenRunEnded ==
    (RunEnded /\ rec.exists) => rec.processingStatus.complete

\* C2: once the stored processingStatus has complete true, no later write of
\* the run changes it: complete stays true and hlsProgress, hlsStage and
\* errors stay as they were
C2_CompleteIsTerminal ==
    [][rec.processingStatus.complete
         => rec'.processingStatus = rec.processingStatus]_vars

\* C3: after the upload request was answered with success, the stream
\* endpoint never answers that the video is not available
C3_StreamAvailableAfterUpload ==
    uploadResp = "ok" =>
        \A cloudOk \in BOOLEAN : StreamResponse(cloudOk) # "not_available"

\* C4: while the primary cloud upload of a stored video has not succeeded and
\* force-cleanup is unset, no step removes the original upload file
C4_OriginalKeptWithoutCloudCopy ==
    [][(rec.exists /\ ~tg.uploaded /\ ~forceCleanup /\ disk.upload)
         => disk'.upload]_vars

\* C5: unless force-cleanup is set, the segment directory is removed only when
\* the bulk upload was attempted and none of its files failed
C5_SegmentsRemovedOnlyWhenAllInCloud ==
    [][(disk.hls # {} /\ disk'.hls = {} /\ ~forceCleanup)
         => (segCloud.state = "attempted" /\ segCloud.failed = {})]_vars

\* C6: for a stored multi-audio video with a main manifest, the audio-track
\* request for every track index of the source is answered with the track's
\* stream or manifest or with the main manifest, never with an error
C6_AudioRequestNeverFails ==
    (rec.exists /\ rec.hasMultiAudio /\ rec.hlsPlaylist) =>
        \A t \in 0..(file.nAudio - 1), cloudOk \in BOOLEAN :
            AudioResponse(t, cloudOk) \in
                {"cloud_stream", "redirect_track_manifest", "redirect_manifest"}

\* C7: the stream endpoint redirects to the manifest endpoint only when a
\* standard or video-only master manifest is on the local disk
C7_RedirectOnlyToLocalManifest ==
    \A cloudOk \in BOOLEAN :
        StreamResponse(cloudOk) = "redirect_manifest" =>
            (<<"master", 0>> \in disk.hls \/ <<"vomaster", 0>> \in disk.hls)

\* C8: when the video-only encode of a multi-audio source ends, failed or
\* not, the standard encode is the next phase to run
C8_StandardEncodeFollowsVideoOnly ==
    [][(pc = "vo_quality" /\ pc' # "vo_quality") => pc' = "std_quality"]_vars

\* C9: when the run has ended, the stored errors list is not empty if a
\* background phase caught a failure
C9_CaughtFailuresListed ==
    (RunEnded /\ rec.exists /\ caught # {}) => rec.processingStatus.errors # <<>>

\* C10: a run of the periodic sweep removes neither the upload file nor a
\* temp file of a video whose background run is in progress
C10_SweepSparesRunInProgress ==
    [][(performAutomaticCleanup /\ RunInProgress)
         => (disk'.upload = disk.upload /\ disk'.temp = disk.temp)]_vars

\* C11: a file of size S above the single-object limit is split into
\* ceil(S / chunkSize) parts, none above the limit, part k holding exactly
\* the blocks (k-1)*chunkSize .. min(k*chunkSize, S) - 1 of the file, so that
\* the parts are contiguous, disjoint and cover the file; the chunked record
\* lists the parts 1..n in ascending order, and the download, which
\* concatenates them in that order, reproduces the file
C11_ChunkedRoundTrip ==
    LET S == Len(up.src)
        chunks == up.record.chunks
        n == Len(chunks)
    IN /\ (up.pc \in {"stored", "download", "downloaded"}
            /\ up.record.uploadMethod = "chunked") =>
               /\ S > maxFileSize
               /\ n * chunkSize >= S /\ (n - 1) * chunkSize < S
               /\ \A k \in 1..n :
                   /\ chunks[k].part = k
                   /\ Len(chunks[k].data) <= maxFileSize
                   /\ Len(chunks[k].data) = Min(chunkSize, S - (k - 1) * chunkSize)
                   /\ \A j \in 1..Len(chunks[k].data) :
                       chunks[k].data[j] = up.src[(k - 1) * chunkSize + j]
       /\ up.pc = "downloaded" => up.out = up.src

C11_Witness ==
    /\ up.pc = "downloaded"
    /\ up.record.uploadMethod = "chunked"
    /\ Len(up.record.chunks) >= 3
    /\ Len(up.src) % chunkSize # 0
    /\ up.out = up.src

\* C12: a successful upload stores a chunked record exactly when the file is
\* strictly larger than the 50 MB limit; a file of at most the limit is sent
\* in one single-object upload, without being split, and its record is
\* 'single', on whichever attempt and to whichever destination it succeeds
C12_ChunkedIffAboveLimit ==
    up.pc = "stored" =>
        /\ up.record.uploaded
        /\ up.record.uploadMethod = "chunked" <=> Len(up.src) > maxFileSize
        /\ Len(up.src) <= maxFileSize =>
            /\ up.record.uploadMethod = "single"
            /\ up.sends = 1
            /\ up.temp = <<>>
            /\ up.record.chunks = <<>>
            /\ up.record.data = up.src

C12_Witness ==
    /\ up.pc = "stored"
    /\ Len(up.src) = maxFileSize
    /\ up.attempt = maxRetries
    /\ up.record.uploadMethod = "single"

\* C13: uploadVideo never throws to the upload handler. Whether the service
\* is unconfigured, the file is missing or the last attempt on the primary
\* destination failed, the handler goes on to store the record, no response
\* has been sent and no failure has been caught; and when the store accepts
\* the record of a video that was not uploaded, the request is answered with
\* success, the record shows no cloud copy and its errors list is empty
C13_UploadFailureIsNotAnError ==
    [][/\ (pc = "upload_primary" /\ pc' # "upload_primary") =>
            /\ pc' = "save"
            /\ uploadResp' = "none"
            /\ caught' = caught
            /\ (~cfg.bot \/ ~disk.upload) => ~tg'.uploaded
       /\ (pc = "save" /\ ~tg.uploaded /\ rec'.exists) =>
            /\ uploadResp' = "ok"
            /\ ~rec'.telegramData.uploaded
            /\ rec'.processingStatus.errors = <<>>
            /\ caught' = caught]_vars

C13_Witness ==
    /\ pc = "bg_start"
    /\ cfg.bot /\ disk.upload /\ now = 0
    /\ attempt = maxRetries
    /\ ~tg.uploaded
    /\ uploadResp = "ok"
    /\ rec.exists /\ ~rec.telegramData.uploaded

\* the text of the header 'bytes=s-e' and of its open form 'bytes=s-'
ClosedRange(s, e) == <<"bytes=">> \o Digits(s) \o <<"-">> \o Digits(e)
OpenRange(s) == <<"bytes=">> \o Digits(s) \o <<"-">>

\* C14: on a range-capable source of content length L, the header
\* 'bytes=s-e' with 0 <= s <= e < L is answered with status 206,
\* Content-Range 'bytes s-e/L' and Content-Length e - s + 1; the open form
\* 'bytes=s-' is answered as 'bytes=s-(L-1)'; a request without a Range
\* header is answered with status 200 and Content-Length L
C14_RangeHeaders ==
    LET L == rq.contentLength
    IN rq.pc = "sent" =>
        /\ (rq.range.present /\ rq.acceptsRanges) =>
            \A s \in 0..(L - 1) :
                /\ \A e \in s..(L - 1) :
                    rq.range.text = ClosedRange(s, e) =>
                        /\ rq.status = 206
                        /\ rq.ContentRange =
                            <<"bytes ">> \o Digits(s) \o <<"-">> \o Digits(e)
                                \o <<"/">> \o Digits(L)
                        /\ rq.ContentLength = Digits(e - s + 1)
                /\ rq.range.text = OpenRange(s) =>
                        /\ rq.status = 206
                        /\ rq.ContentRange =
                            <<"bytes ">> \o Digits(s) \o <<"-">> \o Digits(L - 1)
                                \o <<"/">> \o Digits(L)
                        /\ rq.ContentLength = Digits(L - s)
        /\ ~rq.range.present =>
            /\ rq.status = 200
            /\ rq.ContentRange = <<>>
            /\ rq.ContentLength = Digits(L)

C14_Witness ==
    /\ rq.pc = "sent" /\ rq.acceptsRanges /\ rq.contentLength = 12
    /\ rq.range.text = OpenRange(10)
    /\ rq.status = 206
    /\ rq.ContentLength = <<"2">>

\* C15: a Range header that is unsupported or unsatisfiable on a source of
\* content length L (its start is not a number, as in the suffix form
\* 'bytes=-n', or start >= L, or end < start, or end >= L, or its end is not
\* a number) is answered with status 200, Content-Length L and no
\* Content-Range
C15_InvalidRangeFallsBack ==
    LET L == rq.contentLength
        parts == split(replaceBytes(rq.range.text))
        start == parseInt(parts[1])
        end == IF Len(parts) >= 2 /\ parts[2] # <<>>
               THEN parseInt(parts[2]) ELSE Num(L - 1)
        unsatisfiable ==
            \/ start.nan \/ end.nan
            \/ ~start.nan /\ start.v >= L
            \/ ~start.nan /\ ~end.nan /\ end.v < start.v
            \/ ~end.nan /\ end.v >= L
    IN (rq.pc = "sent" /\ rq.acceptsRanges
            /\ rq.range.present /\ rq.range.text # <<>> /\ unsatisfiable) =>
        /\ rq.status = 200
        /\ rq.ContentRange = <<>>
        /\ rq.ContentLength = Digits(L)

\* C16: once the status endpoint reports processingComplete = true, its
\* answer stays the same in every field, whatever the background run does
\* afterwards
C16_StatusStableOnceComplete ==
    [][(rec.exists /\ StatusResponse.processingComplete)
         => StatusResponse' = StatusResponse]_vars

\* the place of each position of the run in the documented sequence: the
\* six phases have the even ranks, in their order
PhaseRank(p) ==
    CASE p = "extract" -> 2          \* audio extraction
      [] p = "vo_quality" -> 4       \* video-only encode
      [] p = "std_quality" -> 6      \* standard encode
      [] p = "audio_hls" -> 8        \* audio-only HLS generation
      [] p \in {"audio_uploads", "final_update"} -> 9
      [] p = "hls_upload" -> 10      \* cloud backup of the segment files
      [] p \in {"audio_cleanup", "proc_catch"} -> 11
      [] p = "cleanup" -> 12         \* local cleanup
      [] p \in {"outer_catch", "outer_cleanup"} -> 13
      [] p = "done" -> 15
      [] OTHER -> 1

\* C17: within one run the phases start in the order audio extraction,
\* video-only encode, standard encode, audio-only HLS, cloud backup of the
\* segments, local cleanup: the run never moves to an earlier place of the
\* sequence, and it leaves a phase only when every status write the phase
\* awaited has been applied
C17_PhasesInOrder ==
    [][/\ PhaseRank(pc') >= PhaseRank(pc)
       /\ (pc' # pc /\ PhaseRank(pc') % 2 = 0) => PhaseRank(pc') > PhaseRank(pc)
       /\ (pc' # pc /\ PhaseRank(pc) > 1) => wq = <<>>]_vars

C17_Witness ==
    /\ pc = "done" /\ wq = <<>>
    /\ pr.hasMultiAudio /\ pr.extracted # <<>>
    /\ pr.videoOnlyHLS
    /\ rec.hlsPlaylist
    /\ pr.audioHLS # {}
    /\ segCloud.state = "attempted"
    /\ ~disk.upload

C19_OneRunAfterRecordStored ==
    [][/\ RunInProgress => (rec.exists /\ uploadResp = "ok")
       /\ (pc # "bg_start" /\ pc' = "bg_start") =>
            (pc = "save" /\ ~rec.exists /\ rec'.exists
                /\ uploadResp = "none" /\ uploadResp' = "ok"
                /\ ~rec'.cloudThumbnail /\ ~rec'.hlsPlaylist)
       /\ (uploadResp = "none" /\ uploadResp' = "ok") => pc' = "bg_start"]_vars

C19_Witness ==
    /\ pc = "thumb_extract"
    /\ uploadResp = "ok"
    /\ rec.exists /\ ~rec.cloudThumbnail /\ ~rec.hlsPlaylist
    /\ rec.processingStatus.thumbnailGenerating

\* C20: whatever the probe of the stored file says, the request is not
\* failed at that point: the handler goes on to the cloud upload and to the
\* creation of the record
C20_ProbeFailureAccepted ==
    [][(pc = "idle" /\ pc' # "idle")
         => (pc' = "upload_primary" /\ uploadResp' = "none")]_vars

\* C21: the backup uploads exist only after the primary upload succeeded
\* and uploadVideo returned; the result is returned before any backup
\* upload was made, its uploaded flag is the primary outcome, and no backup
\* outcome changes it
C21_BackupsAfterPrimaryUnawaited ==
    [][/\ rp.bpc # "none" =>
            (rp.primary = "ok" /\ rp.returned.set /\ rp.returned.uploaded)
       /\ rp.returned.set => (rp.returned.uploaded <=> rp.primary = "ok")
       /\ (~rp.returned.set /\ rp'.returned.set) =>
            (rp'.backups = <<>> /\ rp'.bpc \in {"none", "scheduled"})
       /\ rp.returned.set => rp'.returned = rp.returned]_vars

C21_Witness ==
    /\ rp.bpc = "done"
    /\ rp.nBackups = MaxBackups
    /\ \A k \in 1..Len(rp.backups) : ~rp.backups[k]
    /\ rp.returned.set /\ rp.returned.uploaded

\* C22: the ladder of a source holds exactly the entries of 1080p, 720p,
\* 480p and 360p that are not taller than the source, tallest first
C22_LadderWithinSource ==
    LET q == ql.qualities
    IN ql.pc = "done" =>
        /\ \A h \in {1080, 720, 480, 360} :
            (h <= ql.height) <=> (\E k \in 1..Len(q) : q[k] = h)
        /\ \A k \in 1..Len(q) : q[k] \in {1080, 720, 480, 360} /\ q[k] <= ql.height
        /\ \A k \in 1..(Len(q) - 1) : q[k] > q[k + 1]

C22_Witness ==
    /\ ql.pc = "done"
    /\ ql.height = 720
    /\ ql.qualities = <<720, 480, 360>>

\* C23: when an encoder ends, it has written a master manifest exactly when
\* the encode of at least one quality succeeded, the manifest names the
\* qualities that succeeded and no other, in ladder order, and the encoder
\* throws exactly when none succeeded
C23_ManifestOfSucceededQualities ==
    [][LET done(kind) == {h \in {1080, 720, 480, 360} : <<kind, h>> \in disk.hls}
           inOrder(S) == SelectSeq(<<1080, 720, 480, 360>>, LAMBDA h : h \in S)
           names(S) == [k \in 1..Len(inOrder(S)) |-> QName(inOrder(S)[k])]
       IN /\ (pc = "std_quality" /\ pc' # "std_quality") =>
                /\ (pc' = "proc_catch") <=> (done("std") = {})
                /\ (<<"master", 0>> \in disk'.hls) <=> (done("std") # {})
                /\ pr'.masters.std = names(done("std"))
          /\ (pc = "vo_quality" /\ pc' # "vo_quality") =>
                /\ (pc' = "proc_catch") <=> (done("vo") = {})
                /\ (<<"vomaster", 0>> \in disk'.hls) <=> (done("vo") # {})
                /\ pr'.masters.vo = names(done("vo"))]_vars

C23_Witness ==
    /\ pc = "audio_uploads"
    /\ file.height = 480
    /\ <<"master", 0>> \in disk.hls
    /\ pr.masters.std = <<"360p">>
    /\ "quality encode" \in caught

C25_SingleAudioDirect ==
    file.nAudio <= 1 =>
        /\ pc \notin {"extract", "vo_quality", "audio_hls"}
        /\ pr.extracted = <<>> /\ pr.audioHLS = {} /\ ~pr.videoOnlyHLS
        /\ ~pr.hasMultiAudio
        /\ disk.audio = {}
        /\ \A h \in {1080, 720, 480, 360} : <<"vo", h>> \notin disk.hls
        /\ ~rec.hasMultiAudio /\ ~rec.videoOnlyHLS
        /\ rec.extractedAudioFiles = <<>> /\ rec.audioHLSStreams = {}
        /\ rec.streamingMethod # "multi-audio-adaptive"
        /\ audioMappings(file.nAudio) = IF file.nAudio = 1 THEN <<0>> ELSE <<>>

C25_Witness ==
    /\ RunEnded /\ rec.exists
    /\ file.nAudio = 1
    /\ rec.hlsPlaylist /\ rec.streamingMethod = "adaptive"
    /\ ~rec.hasMultiAudio
    /\ pr.masters.std # <<>>

\* C26: a run of the script with --force and without --dry-run leaves no
\* directory that is older than the cutoff, whatever the database holds for
\* its video
C26_ForceRemovesEveryOldDirectory ==
    (hc.pc = "ended" /\ hc.force /\ ~hc.dryRun) =>
        \A d \in 1..Len(hc.dirs) : hc.dirs[d].isOld => d \notin hc.present

\* C27: every playback request (stream, manifest, segment, audio track) ends
\* with a stream, a file or an error status after a bounded number of
\* redirects; the stream and the manifest endpoint do not redirect to each
\* other in a cycle
C27_PlaybackReachesTerminalResponse ==
    \A req \in PlaybackRequests, cloudOk \in BOOLEAN :
        Follow(req, cloudOk, MaxRedirects) # "redirecting"

\* C28: at no time are two writes of the video's processingStatus in flight,
\* and when none is in flight the stored status is the one issued last: no
\* progress update is applied after a later update
C28_OneStatusWriteInFlight ==
    /\ Cardinality(pw.inflight) <= 1
    /\ pw.inflight = {} => pw.stored.seq = pw.seq

\* C29: whenever the stored status is complete with no errors, the record
\* holds the run's stream artifacts: the main manifest, an adaptive streaming
\* method and, for a multi-audio source, the video-only manifest and the
\* extracted audio tracks
C29_CompleteImpliesArtifacts ==
    (rec.exists /\ rec.processingStatus.complete
        /\ rec.processingStatus.errors = <<>>) =>
        /\ rec.hlsPlaylist
        /\ rec.streamingMethod \in {"adaptive", "multi-audio-adaptive"}
        /\ file.nAudio > 1 =>
            (rec.videoOnlyHLS /\ rec.extractedAudioFiles # <<>>)

\* C30: the part files of chunked uploads running at once are distinct per
\* upload: every part an upload sends holds the bytes of its own source range,
\* and no upload finds its part file removed by another
C30_PartsHoldOwnRange ==
    \A p \in Uploads :
        /\ cu.u[p].pc # "failed"
        /\ \A k \in 1..Len(cu.u[p].sent) : cu.u[p].sent[k] = <<p, k - 1>>

\* C31: when the 300 s of the group timeout have elapsed and an audio-track
\* upload is still running, the results that had settled are the recorded
\* ones, every upload still running is recorded as failed, and the task has
\* gone on without waiting for it
C31_GroupTimeoutKeepsSettled ==
    (fo.pc # "idle" /\ ~fo.groupTimer) =>
        /\ fo.pc \in {"continued", "cleaned"}
        /\ fo.cloud = fo.entry
        /\ \A k \in 1..fo.n :
            /\ fo.io[k] = "running" => fo.cloud[k] = "failed"
            /\ (fo.dur[k] < AudioUploadTimeout /\ fo.willOk[k])
                   => fo.cloud[k] = "uploaded"

C31_Witness ==
    /\ ~fo.groupTimer /\ fo.t = GroupTimeout /\ fo.n = 2
    /\ fo.io[1] = "ok" /\ fo.cloud[1] = "uploaded"
    /\ fo.io[2] = "running" /\ fo.cloud[2] = "failed"

\* C32: after the fan-out the recorded list has one entry per extracted
\* track, in extraction order, each uploaded or failed; a track whose upload
\* took longer than 30 s is recorded as failed; the task does not wait beyond
\* the 30 s for any track
C32_OneEntryPerTrack ==
    /\ fo.pc \in {"continued", "cleaned"} =>
        /\ Len(fo.cloud) = fo.n
        /\ \A k \in 1..fo.n :
            /\ fo.cloud[k] \in {"uploaded", "failed"}
            /\ fo.cloud[k] = "uploaded" => fo.willOk[k]
            /\ fo.dur[k] > AudioUploadTimeout => fo.cloud[k] = "failed"
            /\ ~fo.willOk[k] => fo.cloud[k] = "failed"
    /\ fo.pc \in {"waiting", "catch"} => fo.t <= AudioUploadTimeout

C32_Witness ==
    /\ fo.pc = "continued" /\ fo.n = 2 /\ fo.t = AudioUploadTimeout
    /\ fo.dur[1] > AudioUploadTimeout /\ fo.willOk[1] /\ fo.cloud[1] = "failed"
    /\ fo.cloud[2] = "uploaded"

\* C33: the overall percentage stored in processingStatus.hlsProgress never
\* decreases from one stored update of a run to the next
C33_ProgressNeverDecreases ==
    [][rec.exists =>
         rec'.processingStatus.hlsProgress >= rec.processingStatus.hlsProgress]_vars

\* C34: a primary upload is attempted at most 3 times; attempt k+1 starts
\* only after attempt k failed and a pause of k times the base delay (5 s,
\* then 10 s); a success stops the retries, and the failure is surfaced after
\* the third failed attempt with no further pause
C34_RetriesWithGrowingPause ==
    (up.dest = "primary") =>
        /\ up.attempt <= maxRetries
        /\ up.slept = [k \in 1..(up.attempt - 1) |-> retryDelay * k]
        /\ up.pc = "failed" => up.attempt = maxRetries
        /\ up.pc \in {"stored", "download", "downloaded"} =>
               up.sends + Len(up.uploadedChunks) >= 1

C34_Witness ==
    /\ up.dest = "primary" /\ up.pc = "failed" /\ up.slept = <<5, 10>>

\* C35: during the bulk upload at most 3 uploads are in flight; a batch
\* starts only after every upload of the batch before has settled and the
\* pause between batches has ended; a file is attempted at most 3 times and
\* attempted again only after a rate-limit failure and its backoff
C35_BatchesOfThree ==
    LET inFlight == {f \in DOMAIN bu.slots : bu.slots[f].st = "sending"} IN
    /\ Cardinality(inFlight) <= 3
    /\ bu.pc = "pause" => inFlight = {}
    /\ bu.pc \in {"batch", "pause"} =>
        /\ bu.pauses * 3 = bu.i
        /\ \A f \in DOMAIN bu.slots : f > bu.i
    /\ \A f \in DOMAIN bu.slots :
        /\ bu.slots[f].tries <= 3
        /\ bu.slots[f].tries <= bu.slots[f].limited + 1

C35_Witness ==
    /\ bu.pc = "batch" /\ bu.n = 7 /\ bu.i = 3 /\ bu.pauses = 1
    /\ bu.slots[4].st = "sending" /\ bu.slots[5].st = "sending"
    /\ bu.slots[6].st = "sending" /\ bu.slots[6].tries = 3

\* C36: with more than 100 candidate files the bulk upload sends nothing and
\* returns the not-uploaded 'too many files' result; with 100 or fewer every
\* file gets at least one upload attempt
C36_CeilingSkipsEverything ==
    /\ bu.n > 100 => (~bu.sent /\ bu.pc = "returned" /\ bu.result = "skipped"
                        /\ ~bu.anyUploaded)
    /\ (bu.pc # "idle" /\ bu.n \in 1..100) =>
        /\ bu.result # "skipped"
        /\ bu.covered = bu.i + Cardinality(DOMAIN bu.slots)
        /\ bu.pc \in {"pause", "returned"} =>
            /\ \A f \in DOMAIN bu.slots : bu.slots[f].tries >= 1
            /\ bu.pc = "returned" => (bu.result = "attempted" /\ bu.covered = bu.n)

C36_Witness ==
    /\ bu.pc = "returned" /\ bu.n = 100 /\ bu.result = "attempted"
    /\ bu.covered = 100 /\ bu.sent

\* C37: no local file is removed by the cleanup while an upload is still
\* reading it: an audio-track upload that is still running has its file
C37_NoFileRemovedWhileRead ==
    \A k \in 1..fo.n : fo.io[k] = "running" => k \in fo.files

\* C38: extractAudioTracks for a source with N > 1 tracks yields the tracks
\* extracted so far in input order, with distinct track indexes below N, at
\* most N of them; a failed track is left out and the later tracks are still
\* processed
C38_ExtractedTracksInOrder ==
    file.nAudio > 1 =>
        /\ Len(pr.extracted) <= file.nAudio
        /\ \A k \in 1..Len(pr.extracted) : pr.extracted[k] \in 0..(file.nAudio - 1)
        /\ \A j, k \in 1..Len(pr.extracted) :
               j < k => pr.extracted[j] < pr.extracted[k]
        /\ pc = "extract" =>
            /\ \A k \in 1..Len(pr.extracted) : pr.extracted[k] < pr.i
            /\ {pr.extracted[k] : k \in 1..Len(pr.extracted)} = disk.audio

C38_Witness ==
    /\ pc = "vo_quality" /\ file.nAudio = 2 /\ pr.extracted = <<1>>
    /\ "audio extraction" \in caught

\* C39: for every source with a video stream, whatever its height, the
\* quality ladder holds at least one quality
C39_LadderNeverEmpty ==
    ql.pc # "idle" => ql.qualities # <<>>

\* C40: the manifest/segment endpoint streams only files inside the segment
\* directory of the requested video, whatever the request path, '..' included
C40_ServesOwnDirectoryOnly ==
    hs.answer = "file" =>
        /\ Len(hs.served) >= 3
        /\ hs.served[1] = HlsRoot /\ hs.served[2] = hs.videoId

C40_Witness ==
    /\ hs.answer = "file" /\ hs.requestPath = <<DotDot, <<"a", "c">>, SegmentFile>>
    /\ hs.videoId = <<"a", "c">> /\ hs.videos = VideoIds

====
